---- MODULE Spec2Model ----
(***************************************************************************)
(* Model of the fandomat coordinator: the Application.run loop             *)
(* (src/plc/application.py), the PLC driver's status getters and command   *)
(* bits (src/plc/plc.py, src/plc/modbus_register.py) and the per-peer      *)
(* message slots of the WebSocket hub (src/websocket/server.py).           *)
(*                                                                         *)
(* Time.  The code stamps time.time() into a field and later compares      *)
(* time.time() - field with a timeout.  A time field of the model holds    *)
(* the time elapsed since the stamp, in seconds, saturated at TimeCap      *)
(* (no comparison of the code can tell two values above the largest        *)
(* timeout apart), and NoTime for Python's None.  The loop sleeps 10 ms    *)
(* per iteration, so at least one whole iteration runs in every second:    *)
(* the clock advances only between iterations and only after an iteration  *)
(* has run since the last advance.                                         *)
(*                                                                         *)
(* The loop iteration is split at the points where the code reads          *)
(* self.state again: pc is the position of the coordinator thread.         *)
(* veil_just_cleared and veil_cleared_time only feed a log line and are    *)
(* left out.                                                               *)
(***************************************************************************)
EXTENDS Integers, Sequences, FiniteSets, TLC

VARIABLES
    app,              \* the Application object's fields
    cmd,              \* PLC.modbus_register_cmd.value (register 25)
    status,           \* PLC.modbus_register_status.value (register 26)
    client_messages,  \* WebSocket.client_messages: peer name -> slot
    pc,               \* position of the coordinator thread in run()
    ticked,           \* an iteration of run() finished since the clock last advanced
    out,              \* events handed to send_event_to_app by the coordinator's last step
    to_vision,        \* payloads handed to send_to_client("vision", ..) by that step
    started,          \* photo-request-worker threads started by that step
    latch_age,        \* per command bit 6/7: time since fusion set it, NoTime when not set by fusion
    arms,             \* vision requests sent since an IDLE iteration last saw the receiver empty
    clients,          \* WebSocket.clients: peer name -> socket
    conns,            \* per socket: where its _handler coroutine is, and the name it registered
    ret,              \* the last get_command call: the name asked for and the value returned
    received,         \* messages stored into slots by _handler's message loop
    returned,         \* non-empty values returned by get_command
    poller,           \* the PLC_update_data thread: "running" or "stopped"
    running,          \* Application.running, the flag the loops of the three kinds of thread watch
    io_failures,      \* Modbus reads and writes that have raised
    script,           \* how far the outside has come in the one-container scenario (0: not in it)
    log,              \* the events handed to send_event_to_app since the scenario began
    workers,          \* the photo-request-worker threads
    device,           \* holding register 25 of the device: the word last written to it
    bus,              \* PLC._modbus_lock, the lock of the command cell, and the calls in progress
                      \* of the driver's cmd_* methods or of the cell's own methods
    episode,          \* "open" from a container_detected to the next outcome event, else "closed"
    counters,         \* the cached words of registers 20 (bank counter) and 21 (bottle counter)
    vision_peer,      \* the classifier requests the vision peer has yet to answer, and whether
                      \* the message in its slot answers a request of an earlier episode
    door_sent         \* what the last lock_door / unlock_door message of app asked for

(* the variables that only the hub's own operations and the other threads change *)
others == <<clients, conns, ret, received, returned, poller, running, io_failures, script, bus,
           counters>>

vars == <<app, cmd, status, client_messages, pc, ticked, out, to_vision, started, latch_age, arms,
          others, log, door_sent, workers, device, episode, vision_peer>>

-----------------------------------------------------------------------------
(* Program constants *)

vision_timeout == 2
dump_timeout == 3
carriage_reset_timeout == 2
photo_timeout == 2

NoTime == -1
TimeCap == 4

MaxSockets == 2
Sockets == 1 .. MaxSockets
MaxMsgs == 2
MaxLog == 6
MaxFailures == 2
MaxWorkers == 2
MaxCallers == 2
MaxCount == 2
MaxOwed == 2
MaxPhotos == 2
Callers == 1 .. MaxCallers

IDLE == "idle"
WAITING_VISION == "waiting_vision"
DUMPING_PLASTIC == "dumping_plastic"
DUMPING_ALUMINUM == "dumping_aluminum"
ERROR == "error"
AppState == {IDLE, WAITING_VISION, DUMPING_PLASTIC, DUMPING_ALUMINUM, ERROR}

None == "None"

-----------------------------------------------------------------------------
(* Messages.  A WebSocket frame is a string; the model keeps what the code *)
(* can tell about it: whether it is empty, whether json.loads accepts it,  *)
(* and then the keys and values of the object.                             *)

Text(s) == [t |-> "text", s |-> s]
Json(obj) == [t |-> "json", obj |-> obj]
Empty == Text("")
PyNone == [t |-> "None"]

Truthy(m) == m # Empty /\ m # PyNone

-----------------------------------------------------------------------------
(* Register cell: a 16-bit word with per-bit access *)

Pow2(n) == 2 ^ n

get_bit(word, bit_num) == (word \div Pow2(bit_num)) % 2

set_bit(word, bit_num, st) ==
    IF st = 1
    THEN IF get_bit(word, bit_num) = 1 THEN word ELSE word + Pow2(bit_num)
    ELSE IF get_bit(word, bit_num) = 1 THEN word - Pow2(bit_num) ELSE word

(* variant: only the low byte of the word is cleared *)
reset_low_byte(word) == word - (word % 256)

reset_all_bits(word) == 0

(* Status getters of the driver (register 26) *)
get_state_veil(w) == get_bit(w, 0)
get_state_left_sensor_carriage(w) == get_bit(w, 1)
get_state_right_sensor_carriage(w) == get_bit(w, 3)
get_state_weight_error(w) == get_bit(w, 5)
get_bank_exist(w) == get_bit(w, 6)
get_bottle_exist(w) == get_bit(w, 7)
get_weight_too_small(w) == get_bit(w, 8)
get_left_movement_error(w) == get_bit(w, 12)
get_right_movement_error(w) == get_bit(w, 13)

(* Command methods of the driver (register 25) *)
cmd_force_move_carriage_left(c) == set_bit(c, 4, 1)
cmd_force_move_carriage_right(c) == set_bit(c, 5, 1)
cmd_radxa_detected_bank(c) == set_bit(c, 6, 1)
cmd_radxa_detected_bottle(c) == set_bit(c, 7, 1)
cmd_radxa_stop_detected_bank(c) == set_bit(c, 6, 0)
cmd_radxa_stop_detected_bottle(c) == set_bit(c, 7, 0)
cmd_full_clear_register(c) == reset_all_bits(c)

-----------------------------------------------------------------------------
(* JSON objects are records; dict.get and item assignment *)

Get(obj, k) == IF k \in DOMAIN obj THEN obj[k] ELSE None

SetKey(obj, k, v) == [x \in (DOMAIN obj) \cup {k} |-> IF x = k THEN v ELSE obj[x]]

NoParams == [x \in {} |-> None]

(* Values of a key: a name stands for a non-empty value, EmptyObject for the *)
(* JSON object {}; Python takes None, {} and "" for false                    *)
EmptyObject == "{}"
Falsy(v) == v \in {None, EmptyObject, ""}

(* Application.parse_command: <<command, params>> *)
parse_command(message) ==
    IF ~Truthy(message) THEN <<None, NoParams>>
    ELSE IF message.t = "json"
    THEN LET data == message.obj
             d2 == IF "container_type" \in DOMAIN data
                   THEN SetKey(data, "param", data["container_type"])
                   ELSE IF "config" \in DOMAIN data
                   THEN SetKey(data, "param", data["config"])
                   ELSE data
         IN  <<Get(data, "command"), d2>>
    ELSE <<None, NoParams>>

-----------------------------------------------------------------------------
(* The hub's per-peer slots (WebSocket.client_messages) *)

Slot(m, jc) == [message |-> m, just_connected |-> jc]

(* WebSocket.get_command: the value returned, and the store left behind *)
get_command(msgs, client_name) ==
    IF client_name \in DOMAIN msgs THEN msgs[client_name].message ELSE Empty
(* variant: the read leaves the message in the slot *)
get_command_store_keeping(msgs, client_name) ==
    msgs

get_command_store(msgs, client_name) ==
    IF client_name \in DOMAIN msgs
    THEN [msgs EXCEPT ![client_name].message = Empty]
    ELSE msgs

(* WebSocket.is_client_just_connected: value and store *)
is_client_just_connected(msgs, client_name) ==
    client_name \in DOMAIN msgs /\ msgs[client_name].just_connected

is_client_just_connected_store(msgs, client_name) ==
    IF is_client_just_connected(msgs, client_name)
    THEN [msgs EXCEPT ![client_name].just_connected = FALSE]
    ELSE msgs

-----------------------------------------------------------------------------
(* The world a step of the coordinator thread works on: w.app the object's *)
(* fields, w.cmd the command word, w.msgs the hub's slots, w.out the       *)
(* events sent to app, w.tx the payloads sent to vision, w.started the     *)
(* threads started, w.latch the ages of the fusion latches.                *)

Event(name, data) == [event |-> name, data |-> data]

send_event_to_app(w, event_name, data) ==
    [w EXCEPT !.out = Append(@, Event(event_name, data))]

send_to_vision(w, payload) == [w EXCEPT !.tx = Append(@, payload)]

NoData == [x \in {} |-> None]

-----------------------------------------------------------------------------
(* Handlers of the app commands *)

handle_get_device_info(w, st) ==
    send_event_to_app(w, "device_info",
        [state |-> w.app.state,
         left_sensor |-> get_state_left_sensor_carriage(st),
         right_sensor |-> get_state_right_sensor_carriage(st),
         door_locked |-> w.app.door_locked])

handle_get_photo(w) == [w EXCEPT !.started = @ + 1]
(* variant: device_init also unlocks the door *)
handle_device_init_unlocking(w, config) ==
    IF Falsy(config) THEN w
    ELSE send_event_to_app([w EXCEPT !.app.device_config = config, !.app.door_locked = FALSE],
                           "device_init_ack", [status |-> "ok"])

(* Application.handle_device_init, lines 518-535: `if not config` turns away *)
(* a missing configuration and an empty one                                  *)
handle_device_init(w, config) ==
    IF Falsy(config) THEN w
    ELSE send_event_to_app([w EXCEPT !.app.device_config = config],
                           "device_init_ack", [status |-> "ok"])

(* variant: the two carriage directions are exchanged *)
container_dump_swapped(w, container_type) ==
    IF container_type = "plastic"
    THEN send_event_to_app(
            [w EXCEPT !.app.state = DUMPING_PLASTIC,
                      !.app.dump_started_time = 0,
                      !.cmd = cmd_force_move_carriage_right(@)],
            "container_dumped", [container_type |-> "plastic"])
    ELSE IF container_type = "aluminum"
    THEN send_event_to_app(
            [w EXCEPT !.app.state = DUMPING_ALUMINUM,
                      !.app.dump_started_time = 0,
                      !.cmd = cmd_force_move_carriage_left(@)],
            "container_dumped", [container_type |-> "aluminum"])
    ELSE w
(* variant: a type that is not plastic is taken for aluminum *)
container_dump_defaulting(w, container_type) ==
    IF container_type = "plastic"
    THEN send_event_to_app(
            [w EXCEPT !.app.state = DUMPING_PLASTIC,
                      !.app.dump_started_time = 0,
                      !.cmd = cmd_force_move_carriage_left(@)],
            "container_dumped", [container_type |-> "plastic"])
    ELSE IF container_type # "plastic"
    THEN send_event_to_app(
            [w EXCEPT !.app.state = DUMPING_ALUMINUM,
                      !.app.dump_started_time = 0,
                      !.cmd = cmd_force_move_carriage_right(@)],
            "container_dumped", [container_type |-> "aluminum"])
    ELSE w

handle_container_dump(w, container_type) ==
    IF container_type = "plastic"
    THEN send_event_to_app(
            [w EXCEPT !.app.state = DUMPING_PLASTIC,
                      !.app.dump_started_time = 0,
                      !.cmd = cmd_force_move_carriage_left(@)],
            "container_dumped", [container_type |-> "plastic"])
    ELSE IF container_type = "aluminum"
    THEN send_event_to_app(
            [w EXCEPT !.app.state = DUMPING_ALUMINUM,
                      !.app.dump_started_time = 0,
                      !.cmd = cmd_force_move_carriage_right(@)],
            "container_dumped", [container_type |-> "aluminum"])
    ELSE w

handle_container_unloaded(w, container_type) ==
    LET w1 == IF container_type = "plastic"
              THEN [w EXCEPT !.cmd = set_bit(@, 3, 1)]
              ELSE IF container_type = "aluminum"
              THEN [w EXCEPT !.cmd = set_bit(@, 2, 1)]
              ELSE w
    IN  send_event_to_app(w1, "container_unloaded_ack",
                          [container_type |-> container_type])

handle_lock_door(w) ==
    send_event_to_app([w EXCEPT !.app.door_locked = TRUE],
                      "up_door_locked", [status |-> "ok"])

handle_unlock_door(w) ==
    send_event_to_app([w EXCEPT !.app.door_locked = FALSE],
                      "up_door_unlocked", [status |-> "ok"])

handle_stub_command(w, command_name) ==
    send_event_to_app(w, command_name \o "_ack", [status |-> "not_implemented"])

StubCommands == {"enter_service_mode", "exit_service_mode", "restore_device",
                 "open_shutter", "reboot_device"}

BridgeCommands == {"cmd_full_clear_register", "cmd_force_move_carriage_left",
                   "cmd_force_move_carriage_right", "cmd_weight_error_reset",
                   "cmd_reset_weight_reading"}

command_handlers == {"get_photo", "get_device_info", "device_init", "dump_container",
                     "container_unloaded", "lock_door", "unlock_door"}
                    \cup StubCommands \cup BridgeCommands

bridge_command(w, command) ==
    [w EXCEPT !.cmd =
        CASE command = "cmd_full_clear_register" -> cmd_full_clear_register(@)
          [] command = "cmd_force_move_carriage_left" -> cmd_force_move_carriage_left(@)
          [] command = "cmd_force_move_carriage_right" -> cmd_force_move_carriage_right(@)
          [] command = "cmd_weight_error_reset" -> set_bit(@, 1, 1)
          [] command = "cmd_reset_weight_reading" -> set_bit(@, 8, 1)
          [] OTHER -> @]

(* Application._dispatch_command *)
dispatch_command(w, st, command, params) ==
    IF command \notin command_handlers
    THEN send_event_to_app(w, "command_error",
                           [command |-> command, error |-> "unknown_command"])
    ELSE CASE command \in StubCommands -> handle_stub_command(w, command)
           [] command = "device_init" -> handle_device_init(w, Get(params, "param"))
           [] command = "dump_container" -> handle_container_dump(w, Get(params, "param"))
           [] command = "container_unloaded" ->
                  handle_container_unloaded(w, Get(params, "param"))
           [] command = "get_photo" -> handle_get_photo(w)
           [] command = "get_device_info" -> handle_get_device_info(w, st)
           [] command = "lock_door" -> handle_lock_door(w)
           [] command = "unlock_door" -> handle_unlock_door(w)
           [] OTHER -> bridge_command(w, command)

(* variant: in ERROR any other command goes through the command registry *)
error_commands_dispatching(w, st) ==
    LET app_message == get_command(w.msgs, "app")
        w1 == [w EXCEPT !.msgs = get_command_store(@, "app")]
        parsed == parse_command(app_message)
        app_command == parsed[1]
        app_param == Get(parsed[2], "param")
    IN  IF app_command = None THEN w1
        ELSE IF app_command = "get_photo" THEN handle_get_photo(w1)
        ELSE IF app_command = "get_device_info" THEN handle_get_device_info(w1, st)
        ELSE IF app_command = "dump_container" THEN handle_container_dump(w1, app_param)
        ELSE IF app_command = "restore_device"
        THEN send_event_to_app([w1 EXCEPT !.app.state = IDLE],
                               "restore_device_ack", [status |-> "ok"])
        ELSE dispatch_command(w1, st, app_command, parsed[2])

(* variant: in ERROR a refused command also returns the state to IDLE *)
error_commands_recovering(w, st) ==
    LET app_message == get_command(w.msgs, "app")
        w1 == [w EXCEPT !.msgs = get_command_store(@, "app")]
        parsed == parse_command(app_message)
        app_command == parsed[1]
        app_param == Get(parsed[2], "param")
    IN  IF app_command = None THEN w1
        ELSE IF app_command = "get_photo" THEN handle_get_photo(w1)
        ELSE IF app_command = "get_device_info" THEN handle_get_device_info(w1, st)
        ELSE IF app_command = "dump_container" THEN handle_container_dump(w1, app_param)
        ELSE IF app_command = "restore_device"
        THEN send_event_to_app([w1 EXCEPT !.app.state = IDLE],
                               "restore_device_ack", [status |-> "ok"])
        ELSE send_event_to_app([w1 EXCEPT !.app.state = IDLE], "command_error",
                 [command |-> app_command, error |-> "not_allowed_in_error_state"])
(* variant: in ERROR restore_device is answered by the stub handler of the registry *)
error_commands_restore_stub(w, st) ==
    LET app_message == get_command(w.msgs, "app")
        w1 == [w EXCEPT !.msgs = get_command_store(@, "app")]
        parsed == parse_command(app_message)
        app_command == parsed[1]
        app_param == Get(parsed[2], "param")
    IN  IF app_command = None THEN w1
        ELSE IF app_command = "get_photo" THEN handle_get_photo(w1)
        ELSE IF app_command = "get_device_info" THEN handle_get_device_info(w1, st)
        ELSE IF app_command = "dump_container" THEN handle_container_dump(w1, app_param)
        ELSE IF app_command = "restore_device"
        THEN handle_stub_command(w1, app_command)
        ELSE send_event_to_app(w1, "command_error",
                 [command |-> app_command, error |-> "not_allowed_in_error_state"])

(* Application._handle_error_state_commands *)
handle_error_state_commands(w, st) ==
    LET app_message == get_command(w.msgs, "app")
        w1 == [w EXCEPT !.msgs = get_command_store(@, "app")]
        parsed == parse_command(app_message)
        app_command == parsed[1]
        app_param == Get(parsed[2], "param")
    IN  IF app_command = None THEN w1
        ELSE IF app_command = "get_photo" THEN handle_get_photo(w1)
        ELSE IF app_command = "get_device_info" THEN handle_get_device_info(w1, st)
        ELSE IF app_command = "dump_container" THEN handle_container_dump(w1, app_param)
        ELSE IF app_command = "restore_device"
        THEN send_event_to_app([w1 EXCEPT !.app.state = IDLE],
                               "restore_device_ack", [status |-> "ok"])
        ELSE send_event_to_app(w1, "command_error",
                 [command |-> app_command, error |-> "not_allowed_in_error_state"])

-----------------------------------------------------------------------------
(* variant: the vision reply alone decides, the PLC detection is not compared *)
fusion_trusting_vision(w, vision_response) ==
    IF vision_response = Text("none")
    THEN send_event_to_app(w, "container_not_recognized", NoData)
    ELSE IF vision_response = Text("plastic")
    THEN send_event_to_app(
            [w EXCEPT !.cmd = cmd_radxa_detected_bottle(@),
                      !.app.carriage_moving_bottle = TRUE,
                      !.app.carriage_moving_start_time = 0,
                      !.latch[7] = 0],
            "container_recognized", [container_type |-> "plastic", confidence |-> 1])
    ELSE IF vision_response = Text("aluminum")
    THEN send_event_to_app(
            [w EXCEPT !.cmd = cmd_radxa_detected_bank(@),
                      !.app.carriage_moving_bank = TRUE,
                      !.app.carriage_moving_start_time = 0,
                      !.latch[6] = 0],
            "container_recognized", [container_type |-> "aluminum", confidence |-> 1])
    ELSE send_event_to_app(w, "container_not_recognized",
            [plc_type |-> w.app.current_plc_detection, vision_type |-> vision_response])

(* Application._handle_vision_response_with_events *)
handle_vision_response_with_events(w, vision_response) ==
    IF vision_response = Text("none")
    THEN send_event_to_app(w, "container_not_recognized", NoData)
    ELSE IF w.app.current_plc_detection = "plastic" /\ vision_response = Text("plastic")
    THEN send_event_to_app(
            [w EXCEPT !.cmd = cmd_radxa_detected_bottle(@),
                      !.app.carriage_moving_bottle = TRUE,
                      !.app.carriage_moving_start_time = 0,
                      !.latch[7] = 0],
            "container_recognized", [container_type |-> "plastic", confidence |-> 1])
    ELSE IF w.app.current_plc_detection = "aluminum" /\ vision_response = Text("aluminum")
    THEN send_event_to_app(
            [w EXCEPT !.cmd = cmd_radxa_detected_bank(@),
                      !.app.carriage_moving_bank = TRUE,
                      !.app.carriage_moving_start_time = 0,
                      !.latch[6] = 0],
            "container_recognized", [container_type |-> "aluminum", confidence |-> 1])
    ELSE send_event_to_app(w, "container_not_recognized",
            [plc_type |-> w.app.current_plc_detection, vision_type |-> vision_response])

(* Application._handle_dumping_state *)
DumpSensor(st, state) ==
    IF state = DUMPING_PLASTIC THEN get_state_left_sensor_carriage(st)
    ELSE get_state_right_sensor_carriage(st)

DumpType(state) == IF state = DUMPING_PLASTIC THEN "plastic" ELSE "aluminum"

(* PLC.get_bank_count, PLC.get_bottle_count *)
get_bank_count == counters.bank
get_bottle_count == counters.bottle

(* variant: the counter of the other register is read *)
DumpCounter_crossed(state) == IF state = DUMPING_PLASTIC THEN get_bank_count ELSE get_bottle_count

DumpCounter(state) == IF state = DUMPING_PLASTIC THEN get_bottle_count ELSE get_bank_count

DumpErrorCode(state) ==
    IF state = DUMPING_PLASTIC THEN "carriage_left_timeout" ELSE "carriage_right_timeout"

(* variant: the dump timeout leaves the command word as it is *)
dumping_without_clear(w, st, state) ==
    IF DumpSensor(st, state) = 1
    THEN send_event_to_app(
            [w EXCEPT !.cmd = cmd_full_clear_register(@),
                      !.app.state = IDLE,
                      !.app.dump_started_time = NoTime],
            "container_accepted", [container_type |-> DumpType(state),
                                   counter |-> DumpCounter(state)])
    ELSE IF w.app.dump_started_time > dump_timeout
    THEN send_event_to_app(
            [w EXCEPT !.app.state = ERROR,
                      !.app.dump_started_time = NoTime],
            "hardware_error", [error_code |-> DumpErrorCode(state)])
    ELSE w

handle_dumping_state(w, st, state) ==
    IF DumpSensor(st, state) = 1
    THEN send_event_to_app(
            [w EXCEPT !.cmd = cmd_full_clear_register(@),
                      !.app.state = IDLE,
                      !.app.dump_started_time = NoTime],
            "container_accepted", [container_type |-> DumpType(state),
                                   counter |-> DumpCounter(state)])
    ELSE IF w.app.dump_started_time > dump_timeout
    THEN send_event_to_app(
            [w EXCEPT !.cmd = cmd_full_clear_register(@),
                      !.app.state = ERROR,
                      !.app.dump_started_time = NoTime],
            "hardware_error", [error_code |-> DumpErrorCode(state)])
    ELSE w

-----------------------------------------------------------------------------
(* The sections of one iteration of Application.run *)
(* variant: the latch is lowered without waiting for carriage_reset_timeout *)
carriage_reset_at_once(w) ==
    LET w1 == IF w.app.carriage_moving_bottle
                 /\ w.app.carriage_moving_start_time # NoTime
                 /\ w.app.carriage_moving_start_time >= 0
              THEN [w EXCEPT !.cmd = cmd_radxa_stop_detected_bottle(@),
                             !.app.carriage_moving_bottle = FALSE,
                             !.app.carriage_moving_start_time = NoTime]
              ELSE w
    IN  IF w1.app.carriage_moving_bank
           /\ w1.app.carriage_moving_start_time # NoTime
           /\ w1.app.carriage_moving_start_time > carriage_reset_timeout
        THEN [w1 EXCEPT !.cmd = cmd_radxa_stop_detected_bank(@),
                        !.app.carriage_moving_bank = FALSE,
                        !.app.carriage_moving_start_time = NoTime]
        ELSE w1

(* lines 189-202: lower the fusion latches after carriage_reset_timeout *)
carriage_reset(w) ==
    LET w1 == IF w.app.carriage_moving_bottle
                 /\ w.app.carriage_moving_start_time # NoTime
                 /\ w.app.carriage_moving_start_time > carriage_reset_timeout
              THEN [w EXCEPT !.cmd = cmd_radxa_stop_detected_bottle(@),
                             !.app.carriage_moving_bottle = FALSE,
                             !.app.carriage_moving_start_time = NoTime]
              ELSE w
    IN  IF w1.app.carriage_moving_bank
           /\ w1.app.carriage_moving_start_time # NoTime
           /\ w1.app.carriage_moving_start_time > carriage_reset_timeout
        THEN [w1 EXCEPT !.cmd = cmd_radxa_stop_detected_bank(@),
                        !.app.carriage_moving_bank = FALSE,
                        !.app.carriage_moving_start_time = NoTime]
        ELSE w1

(* variant: the vision timeout returns to IDLE without its event *)
waiting_vision_silent_timeout(w, st) ==
    LET vision_response == get_command(w.msgs, "vision")
        w1 == [w EXCEPT !.msgs = get_command_store(@, "vision")]
        w2 == IF Truthy(vision_response) /\ w1.app.pending_vision_response = PyNone
              THEN [w1 EXCEPT !.app.pending_vision_response = vision_response]
              ELSE w1
        w3 == IF w2.app.current_plc_detection = None
              THEN IF get_bottle_exist(st) = 1
                   THEN [w2 EXCEPT !.app.current_plc_detection = "plastic"]
                   ELSE IF get_bank_exist(st) = 1
                   THEN [w2 EXCEPT !.app.current_plc_detection = "aluminum"]
                   ELSE w2
              ELSE w2
    IN  IF w3.app.pending_vision_response # PyNone /\ w3.app.current_plc_detection # None
        THEN [handle_vision_response_with_events(w3, w3.app.pending_vision_response)
                EXCEPT !.app.state = IDLE,
                       !.app.vision_request_time = NoTime,
                       !.app.current_plc_detection = None,
                       !.app.pending_vision_response = PyNone]
        ELSE IF w3.app.vision_request_time > vision_timeout
        THEN [w3 EXCEPT !.app.state = IDLE,
                        !.app.vision_request_time = NoTime,
                        !.app.current_plc_detection = None,
                        !.app.pending_vision_response = PyNone]
        ELSE w3

(* lines 204-256: the WAITING_VISION branch *)
waiting_vision(w, st) ==
    LET vision_response == get_command(w.msgs, "vision")
        w1 == [w EXCEPT !.msgs = get_command_store(@, "vision")]
        w2 == IF Truthy(vision_response) /\ w1.app.pending_vision_response = PyNone
              THEN [w1 EXCEPT !.app.pending_vision_response = vision_response]
              ELSE w1
        w3 == IF w2.app.current_plc_detection = None
              THEN IF get_bottle_exist(st) = 1
                   THEN [w2 EXCEPT !.app.current_plc_detection = "plastic"]
                   ELSE IF get_bank_exist(st) = 1
                   THEN [w2 EXCEPT !.app.current_plc_detection = "aluminum"]
                   ELSE w2
              ELSE w2
    IN  IF w3.app.pending_vision_response # PyNone /\ w3.app.current_plc_detection # None
        THEN [handle_vision_response_with_events(w3, w3.app.pending_vision_response)
                EXCEPT !.app.state = IDLE,
                       !.app.vision_request_time = NoTime,
                       !.app.current_plc_detection = None,
                       !.app.pending_vision_response = PyNone]
        ELSE IF w3.app.vision_request_time > vision_timeout
        THEN send_event_to_app(
                [w3 EXCEPT !.app.state = IDLE,
                           !.app.vision_request_time = NoTime,
                           !.app.current_plc_detection = None,
                           !.app.pending_vision_response = PyNone],
                "container_not_recognized", NoData)
        ELSE w3

(* variant: a veil falling edge arms whatever inference_requested holds *)
idle_veil_unguarded(w, st) ==
    LET w0 == IF is_client_just_connected(w.msgs, "app")
              THEN handle_get_device_info(
                      [w EXCEPT !.msgs = is_client_just_connected_store(@, "app")], st)
              ELSE w
        current_veil == get_state_veil(st)
        bottle_exist == get_bottle_exist(st)
        bank_exist == get_bank_exist(st)
        container_detected == bottle_exist = 1 \/ bank_exist = 1
        w1 == IF ~container_detected
              THEN [w0 EXCEPT !.app.inference_requested = FALSE]
              ELSE w0
        plc == IF bottle_exist = 1 THEN "plastic"
               ELSE IF bank_exist = 1 THEN "aluminum" ELSE None
        vision_cmd == IF bottle_exist = 1 THEN "bottle_exist"
                      ELSE IF bank_exist = 1 THEN "bank_exist" ELSE "bottle_exist"
        w2 == IF w1.app.prev_veil_state = 1 /\ current_veil = 0
              THEN LET a == [w1 EXCEPT !.app.inference_requested = TRUE,
                                       !.app.vision_request_time = 0,
                                       !.app.current_plc_detection = plc]
                       b == send_event_to_app(a, "container_detected",
                               [container_type |-> IF plc = None THEN "unknown" ELSE plc])
                       c == [b EXCEPT !.msgs = get_command_store(@, "vision")]
                       d == send_to_vision(c, Text(vision_cmd))
                   IN  [d EXCEPT !.app.state = WAITING_VISION]
              ELSE w1
    IN  [w2 EXCEPT !.app.prev_veil_state = current_veil]

(* variant: inference_requested is never lowered on an empty receiver *)
idle_veil_keeping_flag(w, st) ==
    LET w0 == IF is_client_just_connected(w.msgs, "app")
              THEN handle_get_device_info(
                      [w EXCEPT !.msgs = is_client_just_connected_store(@, "app")], st)
              ELSE w
        current_veil == get_state_veil(st)
        bottle_exist == get_bottle_exist(st)
        bank_exist == get_bank_exist(st)
        container_detected == bottle_exist = 1 \/ bank_exist = 1
        w1 == w0
        plc == IF bottle_exist = 1 THEN "plastic"
               ELSE IF bank_exist = 1 THEN "aluminum" ELSE None
        vision_cmd == IF bottle_exist = 1 THEN "bottle_exist"
                      ELSE IF bank_exist = 1 THEN "bank_exist" ELSE "bottle_exist"
        w2 == IF w1.app.prev_veil_state = 1 /\ current_veil = 0
                 /\ ~w1.app.inference_requested
              THEN LET a == [w1 EXCEPT !.app.inference_requested = TRUE,
                                       !.app.vision_request_time = 0,
                                       !.app.current_plc_detection = plc]
                       b == send_event_to_app(a, "container_detected",
                               [container_type |-> IF plc = None THEN "unknown" ELSE plc])
                       c == [b EXCEPT !.msgs = get_command_store(@, "vision")]
                       d == send_to_vision(c, Text(vision_cmd))
                   IN  [d EXCEPT !.app.state = WAITING_VISION]
              ELSE w1
    IN  [w2 EXCEPT !.app.prev_veil_state = current_veil]
(* variant: the token is bottle_exist whatever the receiver bits say *)
idle_veil_one_token(w, st) ==
    LET w0 == IF is_client_just_connected(w.msgs, "app")
              THEN handle_get_device_info(
                      [w EXCEPT !.msgs = is_client_just_connected_store(@, "app")], st)
              ELSE w
        current_veil == get_state_veil(st)
        bottle_exist == get_bottle_exist(st)
        bank_exist == get_bank_exist(st)
        container_detected == bottle_exist = 1 \/ bank_exist = 1
        w1 == IF ~container_detected
              THEN [w0 EXCEPT !.app.inference_requested = FALSE]
              ELSE w0
        plc == IF bottle_exist = 1 THEN "plastic"
               ELSE IF bank_exist = 1 THEN "aluminum" ELSE None
        vision_cmd == IF bottle_exist = 1 THEN "bottle_exist"
                      ELSE "bottle_exist"
        w2 == IF w1.app.prev_veil_state = 1 /\ current_veil = 0
                 /\ ~w1.app.inference_requested
              THEN LET a == [w1 EXCEPT !.app.inference_requested = TRUE,
                                       !.app.vision_request_time = 0,
                                       !.app.current_plc_detection = plc]
                       b == send_event_to_app(a, "container_detected",
                               [container_type |-> IF plc = None THEN "unknown" ELSE plc])
                       c == [b EXCEPT !.msgs = get_command_store(@, "vision")]
                       d == send_to_vision(c, Text(vision_cmd))
                   IN  [d EXCEPT !.app.state = WAITING_VISION]
              ELSE w1
    IN  [w2 EXCEPT !.app.prev_veil_state = current_veil]

(* lines 263-315: the IDLE branch up to the update of prev_veil_state *)
idle_veil(w, st) ==
    LET w0 == IF is_client_just_connected(w.msgs, "app")
              THEN handle_get_device_info(
                      [w EXCEPT !.msgs = is_client_just_connected_store(@, "app")], st)
              ELSE w
        current_veil == get_state_veil(st)
        bottle_exist == get_bottle_exist(st)
        bank_exist == get_bank_exist(st)
        container_detected == bottle_exist = 1 \/ bank_exist = 1
        w1 == IF ~container_detected
              THEN [w0 EXCEPT !.app.inference_requested = FALSE]
              ELSE w0
        plc == IF bottle_exist = 1 THEN "plastic"
               ELSE IF bank_exist = 1 THEN "aluminum" ELSE None
        vision_cmd == IF bottle_exist = 1 THEN "bottle_exist"
                      ELSE IF bank_exist = 1 THEN "bank_exist" ELSE "bottle_exist"
        w2 == IF w1.app.prev_veil_state = 1 /\ current_veil = 0
                 /\ ~w1.app.inference_requested
              THEN LET a == [w1 EXCEPT !.app.inference_requested = TRUE,
                                       !.app.vision_request_time = 0,
                                       !.app.current_plc_detection = plc]
                       b == send_event_to_app(a, "container_detected",
                               [container_type |-> IF plc = None THEN "unknown" ELSE plc])
                       c == [b EXCEPT !.msgs = get_command_store(@, "vision")]
                       d == send_to_vision(c, Text(vision_cmd))
                   IN  [d EXCEPT !.app.state = WAITING_VISION]
              ELSE w1
    IN  [w2 EXCEPT !.app.prev_veil_state = current_veil]

(* lines 317-322: drain the app slot and dispatch *)
idle_commands(w, st) ==
    LET app_message == get_command(w.msgs, "app")
        w1 == [w EXCEPT !.msgs = get_command_store(@, "app")]
        parsed == parse_command(app_message)
    IN  IF Truthy(app_message) /\ parsed[1] # None
        THEN dispatch_command(w1, st, parsed[1], parsed[2])
        ELSE w1
(* Application._check_receiver_state *)
check_receiver_state(w, st) ==
    LET bottle == get_bottle_exist(st)
        bank == get_bank_exist(st)
        current_state == IF bottle # 0 THEN bottle ELSE bank
    IN  IF current_state # w.app.prev_receiver_state
        THEN [(IF current_state # 0
               THEN send_event_to_app(w, "receiver_not_empty",
                        [bottle_exist |-> bottle, bank_exist |-> bank])
               ELSE send_event_to_app(w, "receiver_empty", NoData))
                EXCEPT !.app.prev_receiver_state = current_state]
        ELSE w

(* variant: an event on every iteration that reads a condition high *)
check_hardware_errors_level(w, st) ==
    LET weight_error == get_state_weight_error(st)
        weight_small == get_weight_too_small(st)
        left_error == get_left_movement_error(st)
        right_error == get_right_movement_error(st)
        w1 == IF weight_error = 1
              THEN send_event_to_app(w, "hardware_error", [error_code |-> "weight_error"])
              ELSE w
        w2 == IF weight_small = 1
              THEN send_event_to_app(w1, "hardware_error", [error_code |-> "weight_too_small"])
              ELSE w1
        w3 == IF left_error = 1
              THEN send_event_to_app(w2, "hardware_error", [error_code |-> "left_movement_error"])
              ELSE w2
        w4 == IF right_error = 1
              THEN send_event_to_app(w3, "hardware_error", [error_code |-> "right_movement_error"])
              ELSE w3
    IN  [w4 EXCEPT !.app.prev_weight_error = weight_error,
                   !.app.prev_weight_too_small = weight_small,
                   !.app.prev_left_movement_error = left_error,
                   !.app.prev_right_movement_error = right_error]
(* variant: a movement error puts the coordinator into ERROR *)
check_hardware_errors_failing(w, st) ==
    LET weight_error == get_state_weight_error(st)
        weight_small == get_weight_too_small(st)
        left_error == get_left_movement_error(st)
        right_error == get_right_movement_error(st)
        w1 == IF weight_error = 1 /\ w.app.prev_weight_error = 0
              THEN send_event_to_app(w, "hardware_error", [error_code |-> "weight_error"])
              ELSE w
        w2 == IF weight_small = 1 /\ w1.app.prev_weight_too_small = 0
              THEN send_event_to_app(w1, "hardware_error", [error_code |-> "weight_too_small"])
              ELSE w1
        w3 == IF left_error = 1 /\ w2.app.prev_left_movement_error = 0
              THEN send_event_to_app([w2 EXCEPT !.app.state = ERROR], "hardware_error",
                                 [error_code |-> "left_movement_error"])
              ELSE w2
        w4 == IF right_error = 1 /\ w3.app.prev_right_movement_error = 0
              THEN send_event_to_app(w3, "hardware_error", [error_code |-> "right_movement_error"])
              ELSE w3
    IN  [w4 EXCEPT !.app.prev_weight_error = weight_error,
                   !.app.prev_weight_too_small = weight_small,
                   !.app.prev_left_movement_error = left_error,
                   !.app.prev_right_movement_error = right_error]

(* Application._check_hardware_errors *)
check_hardware_errors(w, st) ==
    LET weight_error == get_state_weight_error(st)
        weight_small == get_weight_too_small(st)
        left_error == get_left_movement_error(st)
        right_error == get_right_movement_error(st)
        w1 == IF weight_error = 1 /\ w.app.prev_weight_error = 0
              THEN send_event_to_app(w, "hardware_error", [error_code |-> "weight_error"])
              ELSE w
        w2 == IF weight_small = 1 /\ w1.app.prev_weight_too_small = 0
              THEN send_event_to_app(w1, "hardware_error", [error_code |-> "weight_too_small"])
              ELSE w1
        w3 == IF left_error = 1 /\ w2.app.prev_left_movement_error = 0
              THEN send_event_to_app(w2, "hardware_error", [error_code |-> "left_movement_error"])
              ELSE w2
        w4 == IF right_error = 1 /\ w3.app.prev_right_movement_error = 0
              THEN send_event_to_app(w3, "hardware_error", [error_code |-> "right_movement_error"])
              ELSE w3
    IN  [w4 EXCEPT !.app.prev_weight_error = weight_error,
                   !.app.prev_weight_too_small = weight_small,
                   !.app.prev_left_movement_error = left_error,
                   !.app.prev_right_movement_error = right_error]

-----------------------------------------------------------------------------
(* What the PLC and the peers can send *)

VisionReplies == {Text("plastic"), Text("aluminum"), Text("none")}

DumpPlastic == Json([command |-> "dump_container", container_type |-> "plastic"])
DumpAluminum == Json([command |-> "dump_container", container_type |-> "aluminum"])
RestoreDevice == Json([command |-> "restore_device"])

(* Commands of every kind the dispatcher tells apart: a dump with a type   *)
(* the handler does not know and one with no type, the commands ERROR      *)
(* honours, a stub, a handler with a state of its own, a handler that      *)
(* writes the command word, a name outside the registry, and the plain     *)
(* text form of the tests, which json.loads rejects.                       *)
AppCommands ==
    {DumpPlastic, DumpAluminum,
     Json([command |-> "dump_container", container_type |-> "aluminium"]),
     Json([command |-> "dump_container"]),
     RestoreDevice,
     Json([command |-> "get_device_info"]),
     Json([command |-> "open_shutter"]),
     Json([command |-> "lock_door"]),
     Json([command |-> "container_unloaded", container_type |-> "plastic"]),
     Json([command |-> "close_shutter"]),
     Text("dump_container:plastic")}

(* A caller of the driver that is in none of its cmd_* methods *)
NoCall == [at |-> "idle", op |-> None, bit |-> 0, st |-> 0]

(* A photo-request-worker thread: where it is in _handle_get_photo_worker, *)
(* the time since its start_time, whether it has polled since the clock   *)
(* last advanced, and the photo_ready events it has sent                  *)
NoWorker == [at |-> "none", age |-> NoTime, polled |-> FALSE, asked |-> FALSE, sent |-> <<>>]

(* Application.handle_get_photo: Thread(...).start(), once per call *)
RECURSIVE Spawn(_, _)
Spawn(ws, n) ==
    IF n = 0 \/ \A i \in DOMAIN ws : ws[i].at # "none" THEN ws
    ELSE LET i == CHOOSE j \in DOMAIN ws :
                    ws[j].at = "none" /\ \A k \in DOMAIN ws : ws[k].at = "none" => j <= k
         IN  Spawn([ws EXCEPT ![i].at = "begin"], n - 1)

-----------------------------------------------------------------------------
(* Initial state: Application.__init__, PLC.__init__, WebSocket.__init__ *)

Init ==
    /\ app = [state |-> IDLE,
              current_plc_detection |-> None,
              vision_request_time |-> NoTime,
              dump_started_time |-> NoTime,
              prev_veil_state |-> 0,
              carriage_moving_bottle |-> FALSE,
              carriage_moving_bank |-> FALSE,
              carriage_moving_start_time |-> NoTime,
              prev_receiver_state |-> 0,
              inference_requested |-> FALSE,
              pending_vision_response |-> PyNone,
              door_locked |-> FALSE,
              device_config |-> None,
              prev_weight_error |-> 0,
              prev_weight_too_small |-> 0,
              prev_left_movement_error |-> 0,
              prev_right_movement_error |-> 0]
    /\ cmd = 0
    /\ status = 0
    /\ client_messages = [n \in {} |-> Slot(Empty, FALSE)]
    /\ pc = "top"
    /\ ticked = FALSE
    /\ out = <<>>
    /\ to_vision = <<>>
    /\ started = 0
    /\ latch_age = [b \in {6, 7} |-> NoTime]
    /\ arms = 0
    /\ clients = [n \in {} |-> 0]
    /\ conns = [s \in Sockets |-> [at |-> "recv_name", name |-> None]]
    /\ ret = [name |-> None, value |-> Empty]
    /\ received = 0
    /\ returned = 0
    /\ poller = "running"
    /\ running = TRUE
    /\ io_failures = 0
    /\ script = 0
    /\ log = <<>>
    /\ door_sent = FALSE
    /\ workers = [i \in 1 .. MaxWorkers |-> NoWorker]
    /\ device = 0
    /\ counters = [bank |-> 0, bottle |-> 0]
    /\ episode = "closed"
    /\ vision_peer = [owed |-> 0, stale |-> FALSE]
    /\ bus = [lock |-> 0, cell |-> 0, calls |-> [c \in Callers |-> NoCall]]

(* How the events of one step continue the pairing of container_detected *)
(* with its outcome: "open" after a container_detected, "closed" after an  *)
(* outcome event                                                           *)
RECURSIVE Episode(_, _)
Episode(ep, events) ==
    IF events = <<>> THEN ep
    ELSE LET e == Head(events).event
             next == IF e = "container_detected" THEN "open"
                     ELSE IF e \in {"container_recognized", "container_not_recognized"}
                     THEN "closed"
                     ELSE ep
         IN  Episode(next, Tail(events))

(* whether the events of one step send a container_detected while one is *)
(* open, or an outcome while none is                                      *)
RECURSIVE Unpaired(_, _)
Unpaired(ep, events) ==
    IF events = <<>> THEN FALSE
    ELSE LET e == Head(events).event
         IN  \/ e = "container_detected" /\ ep = "open"
             \/ e \in {"container_recognized", "container_not_recognized"} /\ ep = "closed"
             \/ Unpaired(Episode(ep, <<Head(events)>>), Tail(events))

(* the scenario's record of events: nothing outside the scenario, and no *)
(* more than MaxLog events in it                                          *)
Logged(l, o) ==
    IF script = 0 THEN l
    ELSE IF Len(l \o o) <= MaxLog THEN l \o o ELSE SubSeq(l \o o, 1, MaxLog)

W == [app |-> app, cmd |-> cmd, msgs |-> client_messages,
      out |-> <<>>, tx |-> <<>>, started |-> 0, latch |-> latch_age]

(* what a step of the coordinator thread that ends in the world w leaves *)
Effects(w, next_pc) ==
    /\ app' = w.app
    /\ cmd' = w.cmd
    /\ client_messages' = w.msgs
    /\ out' = w.out
    /\ to_vision' = w.tx
    /\ started' = w.started
    /\ log' = Logged(log, w.out)
    /\ workers' = Spawn(workers, w.started)
    /\ episode' = Episode(episode, w.out)
    /\ latch_age' = [b \in {6, 7} |-> IF get_bit(w.cmd, b) = 0 THEN NoTime ELSE w.latch[b]]
    /\ pc' = next_pc
    /\ device' = w.cmd
    /\ UNCHANGED <<status, others, door_sent>>

Commit(w, next_pc) == Effects(w, next_pc) /\ UNCHANGED vision_peer

-----------------------------------------------------------------------------
(* The coordinator thread: one iteration of the loop of Application.run,   *)
(* lines 186-202, then the branch on self.state, then lines 325-328.       *)

run_top(w, st) ==
    carriage_reset(IF w.app.state \in {DUMPING_PLASTIC, DUMPING_ALUMINUM}
                   THEN handle_dumping_state(w, st, w.app.state) ELSE w)

RunTop ==
    /\ pc = "top" /\ running
    /\ Commit(run_top(W, status), "states")
    /\ UNCHANGED <<ticked, arms>>

RunWaitingVision ==
    /\ pc = "states" /\ app.state = WAITING_VISION
    /\ Commit(waiting_vision(W, status), "events")
    /\ UNCHANGED <<ticked, arms>>

RunError ==
    /\ pc = "states" /\ app.state = ERROR
    /\ Commit(handle_error_state_commands(W, status), "events")
    /\ UNCHANGED <<ticked, arms>>

ReceiverEmpty(st) == get_bottle_exist(st) = 0 /\ get_bank_exist(st) = 0

(* The count of vision requests of one occupancy of the receiver: an IDLE  *)
(* iteration that reads the receiver empty starts it again, before the     *)
(* iteration may arm.  Kept up to 2, one more than the claim allows.       *)
ArmsAfter(n, st, armed) ==
    LET base == IF ReceiverEmpty(st) THEN 0 ELSE n
        more == IF armed THEN base + 1 ELSE base
    IN  IF more > 2 THEN 2 ELSE more

IdleIteration ==
    /\ pc = "states" /\ app.state = IDLE
    /\ Effects(idle_veil(W, status), "commands")
    /\ arms' = ArmsAfter(arms, status, idle_veil(W, status).app.state = WAITING_VISION)
    /\ UNCHANGED ticked

RunIdle == IdleIteration /\ UNCHANGED vision_peer

RunOther ==
    /\ pc = "states" /\ app.state \in {DUMPING_PLASTIC, DUMPING_ALUMINUM}
    /\ Commit(W, "events")
    /\ UNCHANGED <<ticked, arms>>

RunCommands ==
    /\ pc = "commands"
    /\ Commit(idle_commands(W, status), "events")
    /\ UNCHANGED <<ticked, arms>>

RunEvents ==
    /\ pc = "events"
    /\ Commit(check_hardware_errors(check_receiver_state(W, status), status), "top")
    /\ ticked' = TRUE
    /\ UNCHANGED arms

-----------------------------------------------------------------------------
(* The other threads and the outside *)

(* PLC_update_data -> PLC.update_data -> sync_from_device: the status word *)
(* follows the device.  The device's word changes one bit at a time; any   *)
(* change of several bits between two reads of the coordinator is a run of *)
(* these steps.                                                            *)
UpdateData(bits) ==
    /\ poller = "running" /\ running
    /\ \E b \in bits : status' = set_bit(status, b, 1 - get_bit(status, b))
    /\ UNCHANGED <<app, cmd, client_messages, pc, ticked, out, to_vision, started, latch_age, arms,
                   others, log, door_sent, workers, device, episode, vision_peer>>

(* WebSocket._handler, lines 92-101: registration of a peer *)
HandlerRegister(names) ==
    /\ \E n \in names :
          client_messages' = [x \in (DOMAIN client_messages) \cup {n} |->
                                 IF x = n THEN Slot(Empty, TRUE) ELSE client_messages[x]]
    /\ UNCHANGED <<app, cmd, status, pc, ticked, out, to_vision, started, latch_age, arms,
                   others, log, door_sent, workers, device, episode, vision_peer>>

(* what app's message m makes of the door command last sent *)
DoorSent(was, n, m) ==
    IF n = "app" /\ parse_command(m)[1] = "lock_door" THEN TRUE
    ELSE IF n = "app" /\ parse_command(m)[1] = "unlock_door" THEN FALSE
    ELSE was

(* variant: a message that has not been read yet is kept, the new one lost *)
handler_store_keeping_unread(msgs, n, m) ==
    IF Truthy(msgs[n].message) THEN msgs ELSE [msgs EXCEPT ![n] = Slot(m, FALSE)]

(* WebSocket._handler, lines 109-114: the slot is replaced by a new one that *)
(* holds the message and has no just_connected key                          *)
handler_store(msgs, n, m) == [msgs EXCEPT ![n] = Slot(m, FALSE)]

(* WebSocket._handler, lines 106-114: a later message of a registered peer *)
HandlerMessage(n, msgs) ==
    /\ n \in DOMAIN client_messages
    /\ \E m \in msgs :
          /\ client_messages' = handler_store(client_messages, n, m)
          /\ door_sent' = DoorSent(door_sent, n, m)
    /\ UNCHANGED <<app, cmd, status, pc, ticked, out, to_vision, started, latch_age, arms,
                   others, log, workers, device, episode, vision_peer>>

Older(t) == IF t = NoTime THEN NoTime ELSE IF t < TimeCap THEN t + 1 ELSE t

(* One second passes while the loop sleeps (line 328) *)
Advance ==
    /\ pc = "top" /\ ticked
    /\ \A i \in DOMAIN workers :
          workers[i].at # "begin" /\ (workers[i].at = "poll" => workers[i].polled)
    /\ workers' = [i \in DOMAIN workers |->
                      [workers[i] EXCEPT !.age = Older(@), !.polled = FALSE]]
    /\ ticked' = FALSE
    /\ app' = [app EXCEPT !.vision_request_time = Older(@),
                          !.dump_started_time = Older(@),
                          !.carriage_moving_start_time = Older(@)]
    /\ latch_age' = [b \in {6, 7} |-> Older(latch_age[b])]
    /\ UNCHANGED <<cmd, status, client_messages, pc, out, to_vision, started, arms,
                   others, log, door_sent, device, episode, vision_peer>>

-----------------------------------------------------------------------------
(* Detection and fusion: the veil, the receiver and the vision peer *)

NextFusion ==
    \/ RunTop
    \/ RunWaitingVision
    \/ RunIdle
    \/ RunCommands
    \/ RunEvents
    \/ UpdateData({0, 6, 7})
    \/ HandlerRegister({"vision"})
    \/ HandlerMessage("vision", VisionReplies)
    \/ Advance

SpecFusion == Init /\ [][NextFusion]_vars

-----------------------------------------------------------------------------
(* Commands and dumping: the app peer, the carriage sensors, the vision    *)
(* peer's messages; the veil stays clear                                   *)

NextDump ==
    \/ RunTop
    \/ RunError
    \/ RunIdle
    \/ RunOther
    \/ RunCommands
    \/ RunEvents
    \/ UpdateData({1, 3, 7})
    \/ HandlerRegister({"app", "vision"})
    \/ HandlerMessage("app", AppCommands)
    \/ HandlerMessage("vision", {Text("plastic")})
    \/ Advance

SpecDump == Init /\ [][NextDump]_vars

-----------------------------------------------------------------------------
(* The whole loop on the path of one container type *)

Next ==
    \/ RunTop
    \/ RunWaitingVision
    \/ RunError
    \/ RunIdle
    \/ RunOther
    \/ RunCommands
    \/ RunEvents
    \/ UpdateData({0, 1, 7})
    \/ HandlerRegister({"app", "vision"})
    \/ HandlerMessage("app", {DumpPlastic, RestoreDevice})
    \/ HandlerMessage("vision", {Text("plastic"), Text("none")})
    \/ Advance

Spec == Init /\ [][Next]_vars

-----------------------------------------------------------------------------
(* Claims *)

Dumping == {DUMPING_PLASTIC, DUMPING_ALUMINUM}

AppSlot == get_command(client_messages, "app")
VisionSlot == get_command(client_messages, "vision")

AppCommand == parse_command(AppSlot)[1]
AppParam == Get(parse_command(AppSlot)[2], "param")

(* The changes of self.state the claim C1 lists, each with its cause *)
ListedTransition ==
    \/ /\ app.state = IDLE /\ app'.state = WAITING_VISION
       /\ app.prev_veil_state = 1 /\ get_state_veil(status) = 0
       /\ (~app.inference_requested \/ ReceiverEmpty(status))
    \/ /\ app.state = WAITING_VISION /\ app'.state = IDLE
    \/ /\ app.state \in {IDLE, ERROR} /\ app'.state \in Dumping
       /\ AppCommand = "dump_container"
    \/ /\ app.state \in Dumping /\ app'.state = IDLE
       /\ DumpSensor(status, app.state) = 1
    \/ /\ app.state \in Dumping /\ app'.state = ERROR
       /\ app.dump_started_time > dump_timeout
    \/ /\ app.state = ERROR /\ app'.state = IDLE
       /\ AppCommand = "restore_device"

(* C1: self.state changes only by one of the listed transitions; in        *)
(* particular it never goes from WAITING_VISION to DUMPING_PLASTIC or      *)
(* DUMPING_ALUMINUM.                                                       *)
C1_OnlyListedTransitions ==
    [][app'.state # app.state => ListedTransition]_vars

(* C2: a command bit 6 or 7 that fusion set is lowered again no later than *)
(* carriage_reset_timeout plus one iteration after it was set.  The clock  *)
(* of the model moves in whole seconds and an iteration runs in every      *)
(* second, so the bit is never seen older than carriage_reset_timeout + 1. *)
C2_LatchLoweredInTime ==
    \A b \in {6, 7} :
        latch_age[b] # NoTime => latch_age[b] <= carriage_reset_timeout + 1

-----------------------------------------------------------------------------
(* The steps of the coordinator thread, told by the positions they join *)

WaitingVisionStep == pc = "states" /\ app.state = WAITING_VISION /\ pc' = "events"
ErrorStep == pc = "states" /\ app.state = ERROR /\ pc' = "events"
IdleStep == pc = "states" /\ app.state = IDLE /\ pc' = "commands"
CommandsStep == pc = "commands" /\ pc' = "events"
TopStep == pc = "top" /\ pc' = "states"

(* What a WAITING_VISION iteration fuses: the reply held over from an      *)
(* earlier iteration or the one in the vision slot, and the PLC detection  *)
(* made at arming or read from the receiver bits now.                      *)
VisionInput ==
    IF app.pending_vision_response # PyNone THEN app.pending_vision_response
    ELSE IF Truthy(VisionSlot) THEN VisionSlot ELSE PyNone

PlcInput ==
    IF app.current_plc_detection # None THEN app.current_plc_detection
    ELSE IF get_bottle_exist(status) = 1 THEN "plastic"
    ELSE IF get_bank_exist(status) = 1 THEN "aluminum" ELSE None

Recognized(type) ==
    Event("container_recognized", [container_type |-> type, confidence |-> 1])

NotRecognized == Event("container_not_recognized", NoData)

Mismatch(plc, vis) ==
    Event("container_not_recognized", [plc_type |-> plc, vision_type |-> vis])

C4_OneRequestPerOccupancy == arms <= 1

(* a second falling edge of the veil is about to be read, receiver occupied *)
C4_Witness ==
    /\ pc = "states" /\ app.state = IDLE /\ arms = 1
    /\ app.prev_veil_state = 1 /\ get_state_veil(status) = 0
    /\ ~ReceiverEmpty(status)

(* C5 as stated: at every IDLE iteration inference_requested is false if   *)
(* and only if the receiver is empty.                                      *)
C5_FlagIffEmpty ==
    [][(IdleStep /\ app'.state = IDLE) =>
        (app'.inference_requested = FALSE <=> ReceiverEmpty(status))]_vars

(* C5 amended: an IDLE iteration that reads the receiver empty and stays   *)
(* in IDLE leaves inference_requested false.                               *)
C5_EmptyClearsFlag ==
    [][(IdleStep /\ app'.state = IDLE /\ ReceiverEmpty(status)) =>
        app'.inference_requested = FALSE]_vars

(* the flag was raised for a container that fusion accepted, and an IDLE   *)
(* iteration has lowered it on the empty receiver                          *)
C5_Witness ==
    /\ pc = "commands" /\ app.state = IDLE /\ ReceiverEmpty(status)
    /\ ~app.inference_requested /\ latch_age[7] # NoTime

(* C6: in WAITING_VISION with the vision peer silent for longer than       *)
(* vision_timeout, the iteration emits container_not_recognized with empty *)
(* data, sets IDLE, clears pending_vision_response, current_plc_detection  *)
(* and vision_request_time, and sets neither command bit 6 nor 7.          *)
C6_VisionTimeout ==
    [][(WaitingVisionStep /\ VisionInput = PyNone
            /\ app.vision_request_time > vision_timeout) =>
        /\ out' = <<NotRecognized>>
        /\ app'.state = IDLE
        /\ app'.pending_vision_response = PyNone
        /\ app'.current_plc_detection = None
        /\ app'.vision_request_time = NoTime
        /\ cmd' = cmd]_vars

(* the timeout has fired with no vision peer registered at all *)
C6_Witness ==
    /\ pc = "events" /\ app.state = IDLE /\ out = <<NotRecognized>>
    /\ "vision" \notin DOMAIN client_messages
    /\ app.vision_request_time = NoTime /\ app.inference_requested

HardwareError(state) == Event("hardware_error", [error_code |-> DumpErrorCode(state)])

Dumped(type) == Event("container_dumped", [container_type |-> type])

CommandError(command) ==
    Event("command_error", [command |-> command, error |-> "not_allowed_in_error_state"])

(* C7: in DUMPING_PLASTIC (DUMPING_ALUMINUM) with the left (right) sensor  *)
(* not asserted and more than dump_timeout elapsed since dump_started_time *)
(* the iteration writes the command word to zero, sets ERROR, clears       *)
(* dump_started_time and emits hardware_error carriage_left_timeout        *)
(* (carriage_right_timeout).                                               *)
C7_DumpTimeout ==
    [][(TopStep /\ app.state \in Dumping /\ DumpSensor(status, app.state) = 0
            /\ app.dump_started_time > dump_timeout) =>
        /\ cmd' = 0
        /\ app'.state = ERROR
        /\ app'.dump_started_time = NoTime
        /\ out' = <<HardwareError(app.state)>>]_vars

C7_Witness ==
    /\ pc = "states" /\ app.state = ERROR /\ cmd = 0
    /\ app.dump_started_time = NoTime
    /\ out = <<HardwareError(DUMPING_ALUMINUM)>>

C9_OnlyRestoreLeavesError ==
    [][(app.state = ERROR /\ app'.state # ERROR) =>
        AppCommand = "restore_device"]_vars

(* C9 amended: the state leaves ERROR only in the ERROR branch, either to  *)
(* IDLE on restore_device or to DUMPING_PLASTIC / DUMPING_ALUMINUM on      *)
(* dump_container with type plastic / aluminum; no other app command, no   *)
(* vision message and no hardware signal changes it.                       *)
C9_ErrorExits ==
    [][(app.state = ERROR /\ app'.state # ERROR) =>
        /\ ErrorStep
        /\ \/ AppCommand = "restore_device" /\ app'.state = IDLE
           \/ /\ AppCommand = "dump_container" /\ AppParam = "plastic"
              /\ app'.state = DUMPING_PLASTIC
           \/ /\ AppCommand = "dump_container" /\ AppParam = "aluminum"
              /\ app'.state = DUMPING_ALUMINUM]_vars

(* ERROR has outlived a refused command, a waiting vision message and an   *)
(* asserted carriage sensor                                                *)
C9_Witness ==
    /\ pc = "events" /\ app.state = ERROR
    /\ out = <<CommandError("lock_door")>>
    /\ Truthy(VisionSlot)
    /\ get_state_left_sensor_carriage(status) = 1

(* C10: in ERROR every app command other than get_photo, get_device_info,  *)
(* dump_container and restore_device yields command_error with error       *)
(* not_allowed_in_error_state, leaves the state ERROR and leaves the       *)
(* command word as it was.                                                 *)
C10_RefusedInError ==
    [][(ErrorStep /\ AppCommand # None
            /\ AppCommand \notin {"get_photo", "get_device_info",
                                  "dump_container", "restore_device"}) =>
        /\ out' = <<CommandError(AppCommand)>>
        /\ app'.state = ERROR
        /\ cmd' = cmd
        /\ started' = 0]_vars

C10_Witness ==
    /\ pc = "events" /\ app.state = ERROR
    /\ out = <<CommandError("open_shutter")>>
    /\ ~Truthy(AppSlot)

RestoreAck == Event("restore_device_ack", [status |-> "ok"])

-----------------------------------------------------------------------------
(* The hub by itself: connections, the registry and the slots *)

PeerNames == {"app", "vision"}
HubMsgs == {Text("plastic"), Text("none")}

(* everything but the hub's registry and slots *)
core == <<app, cmd, status, pc, ticked, out, to_vision, started, latch_age, arms, poller, running,
         io_failures, script, log, bus, counters,
         door_sent, workers, device, episode, vision_peer>>

(* WebSocket._handler, lines 72-103: the first message names the peer; the *)
(* socket takes the name's place in the registry and the slot is made anew *)
Handler_register(s, n) ==
    /\ conns[s].at = "recv_name"
    /\ clients' = [x \in (DOMAIN clients) \cup {n} |-> IF x = n THEN s ELSE clients[x]]
    /\ client_messages' = [x \in (DOMAIN client_messages) \cup {n} |->
                              IF x = n THEN Slot(Empty, TRUE) ELSE client_messages[x]]
    /\ conns' = [conns EXCEPT ![s] = [at |-> "loop", name |-> n]]
    /\ UNCHANGED <<core, ret, received, returned>>

(* WebSocket._handler, lines 106-114: every later message of the socket    *)
(* replaces the slot of the name the socket registered                     *)
Handler_recv(s, m) ==
    /\ conns[s].at = "loop"
    /\ received < MaxMsgs
    /\ client_messages' = [x \in (DOMAIN client_messages) \cup {conns[s].name} |->
                              IF x = conns[s].name THEN Slot(m, FALSE)
                              ELSE client_messages[x]]
    /\ received' = received + 1
    /\ UNCHANGED <<core, clients, conns, ret, returned>>

(* WebSocket._handler, lines 121-133: the connection ends; the name the    *)
(* socket registered leaves the registry and the slots                     *)
Handler_finally(s) ==
    /\ conns[s].at \in {"recv_name", "loop"}
    /\ conns' = [conns EXCEPT ![s].at = "closed"]
    /\ clients' = [x \in (DOMAIN clients) \ {conns[s].name} |-> clients[x]]
    /\ client_messages' = [x \in (DOMAIN client_messages) \ {conns[s].name} |->
                              client_messages[x]]
    /\ UNCHANGED <<core, ret, received, returned>>

(* WebSocket.get_command called by any thread; message_lock makes the read *)
(* and the clearing one step                                               *)
GetCommand(n) ==
    /\ ret' = [name |-> n, value |-> get_command(client_messages, n)]
    /\ client_messages' = get_command_store(client_messages, n)
    /\ returned' = IF Truthy(get_command(client_messages, n)) /\ returned <= MaxMsgs
                   THEN returned + 1 ELSE returned
    /\ UNCHANGED <<core, clients, conns, received>>

NextHub ==
    \/ \E s \in Sockets, n \in PeerNames : Handler_register(s, n)
    \/ \E s \in Sockets, m \in HubMsgs : Handler_recv(s, m)
    \/ \E s \in Sockets : Handler_finally(s)
    \/ \E n \in PeerNames : GetCommand(n)

SpecHub == Init /\ [][NextHub]_vars

(* C12: get_command(name) returns the message in the peer's slot and       *)
(* leaves the slot empty in the same step, so the next call with no        *)
(* message in between returns the empty string; it returns the empty       *)
(* string for an absent peer; and over any run, with calls from any        *)
(* threads, no more non-empty values are returned than messages were       *)
(* received.                                                               *)
C12_OneShotRead ==
    [][\A n \in PeerNames : GetCommand(n) =>
        /\ ret'.value = (IF n \in DOMAIN client_messages
                         THEN client_messages[n].message ELSE Empty)
        /\ get_command(client_messages', n) = Empty
        /\ returned' <= received']_vars

(* a message was returned once and the call after it returned nothing *)
C12_Witness ==
    /\ received = 1 /\ returned = 1
    /\ ret = [name |-> "vision", value |-> Empty]
    /\ "vision" \in DOMAIN client_messages
    /\ "app" \notin DOMAIN client_messages

(* C13: a registration maps the name to the registering socket, and a      *)
(* connection whose name has since been registered by another socket no    *)
(* longer reaches the name's slot with its later messages.                 *)
C13_OlderConnectionEvicted ==
    [][/\ \A s \in Sockets, n \in PeerNames :
            Handler_register(s, n) => clients'[n] = s
       /\ \A s \in Sockets, m \in HubMsgs :
            (/\ Handler_recv(s, m)
             /\ conns[s].name \in DOMAIN clients
             /\ clients[conns[s].name] # s)
            => client_messages' = client_messages]_vars

-----------------------------------------------------------------------------
(* Hardware conditions: the error bits of the status word, and the         *)
(* receiver bit beside them                                                *)

NextErrors ==
    \/ RunTop
    \/ RunIdle
    \/ RunCommands
    \/ RunEvents
    \/ UpdateData({5, 7, 8, 12, 13})
    \/ Advance

SpecErrors == Init /\ [][NextErrors]_vars

EventsStep == pc = "events" /\ pc' = "top"

ErrorCodes == {"weight_error", "weight_too_small", "left_movement_error",
               "right_movement_error"}

CodeError(code) == Event("hardware_error", [error_code |-> code])

(* the condition of a code as the status word shows it *)
Condition(st, code) ==
    CASE code = "weight_error" -> get_state_weight_error(st)
      [] code = "weight_too_small" -> get_weight_too_small(st)
      [] code = "left_movement_error" -> get_left_movement_error(st)
      [] code = "right_movement_error" -> get_right_movement_error(st)

(* the condition of a code as the previous iteration read it *)
Previous(a, code) ==
    CASE code = "weight_error" -> a.prev_weight_error
      [] code = "weight_too_small" -> a.prev_weight_too_small
      [] code = "left_movement_error" -> a.prev_left_movement_error
      [] code = "right_movement_error" -> a.prev_right_movement_error

Occurrences(seq, e) == Cardinality({i \in 1 .. Len(seq) : seq[i] = e})

(* C14: for each of the four conditions, an iteration emits hardware_error *)
(* with the matching error_code once if the condition was 0 at the         *)
(* previous iteration and is 1 at this one, and not at all otherwise; the  *)
(* iteration remembers the condition it read, so a condition held high     *)
(* yields one event.                                                       *)
C14_RisingEdgeOnly ==
    [][EventsStep => \A code \in ErrorCodes :
        /\ Occurrences(out', CodeError(code)) =
              (IF Previous(app, code) = 0 /\ Condition(status, code) = 1 THEN 1 ELSE 0)
        /\ Previous(app', code) = Condition(status, code)]_vars

(* an iteration has reported one condition while another, reported         *)
(* earlier, is still high and was not reported again                       *)
C14_Witness ==
    /\ pc = "top" /\ out = <<CodeError("left_movement_error")>>
    /\ get_state_weight_error(status) = 1 /\ app.prev_weight_error = 1

-----------------------------------------------------------------------------
(* One container from an empty receiver to the bag: the outside follows    *)
(* the scenario step by step, each signal lasting until the loop has read  *)
(* it, the vision peer answering the request and the carriage answering    *)
(* the command, both before their timeouts.                                *)

beside_status == <<app, cmd, client_messages, pc, ticked, out, to_vision, started,
                   latch_age, arms, clients, conns, ret, received, returned, poller, running,
                   io_failures, log, bus, counters, door_sent, workers, device, episode, vision_peer>>

beside_slots == <<app, cmd, status, pc, ticked, out, to_vision, started,
                  latch_age, arms, clients, conns, ret, received, returned, poller, running,
                   io_failures, log, bus, counters, door_sent, workers, device, episode, vision_peer>>

(* both peers register; the loop pushes device_info to app *)
Scenario_connect == script = 0 /\ HandlerRegister({"app", "vision"})

(* the scenario begins: bottle_exist rises on an empty receiver in IDLE *)
Scenario_bottle ==
    /\ script = 0 /\ app.state = IDLE /\ status = 0
    /\ DOMAIN client_messages = {"app", "vision"}
    /\ ~client_messages["app"].just_connected
    /\ status' = set_bit(status, 7, 1)
    /\ script' = 1
    /\ UNCHANGED beside_status

Scenario_veil_up ==
    /\ script = 1
    /\ status' = set_bit(status, 0, 1)
    /\ script' = 2
    /\ UNCHANGED beside_status

Scenario_veil_down ==
    /\ script = 2 /\ app.prev_veil_state = 1
    /\ status' = set_bit(status, 0, 0)
    /\ script' = 3
    /\ UNCHANGED beside_status

Scenario_vision ==
    /\ script = 3 /\ app.state = WAITING_VISION
    /\ client_messages' = [client_messages EXCEPT !["vision"] = Slot(Text("plastic"), FALSE)]
    /\ script' = 4
    /\ UNCHANGED beside_slots

Scenario_dump ==
    /\ script = 4
    /\ client_messages' = [client_messages EXCEPT !["app"] = Slot(DumpPlastic, FALSE)]
    /\ script' = 5
    /\ UNCHANGED beside_slots

Scenario_left ==
    /\ script = 5 /\ app.state = DUMPING_PLASTIC
    /\ status' = set_bit(status, 1, 1)
    /\ script' = 6
    /\ UNCHANGED beside_status

(* time passes, but neither wait of the scenario outlasts its timeout *)
AdvanceInTime ==
    /\ Advance
    /\ app'.vision_request_time <= vision_timeout
    /\ app'.dump_started_time <= dump_timeout

NextScenario ==
    \/ RunTop
    \/ RunWaitingVision
    \/ RunIdle
    \/ RunOther
    \/ RunCommands
    \/ RunEvents
    \/ Scenario_connect
    \/ Scenario_bottle
    \/ Scenario_veil_up
    \/ Scenario_veil_down
    \/ Scenario_vision
    \/ Scenario_dump
    \/ Scenario_left
    \/ AdvanceInTime

SpecScenario == Init /\ [][NextScenario]_vars

Expected ==
    << Event("receiver_not_empty", [bottle_exist |-> 1, bank_exist |-> 0]),
       Event("container_detected", [container_type |-> "plastic"]),
       Recognized("plastic"),
       Dumped("plastic"),
       Event("container_accepted", [container_type |-> "plastic", counter |-> 0]) >>

IsPrefix(a, b) == Len(a) <= Len(b) /\ a = SubSeq(b, 1, Len(a))

(* C15: in the scenario the events handed to app are, at every moment, the *)
(* first ones of receiver_not_empty, container_detected{plastic},          *)
(* container_recognized{plastic}, container_dumped{plastic},               *)
(* container_accepted{plastic, counter}, and all five once the carriage    *)
(* has reached the left sensor and the state is IDLE again.                *)
C15_EventOrder ==
    /\ IsPrefix(log, Expected)
    /\ (script = 6 /\ app.state = IDLE) => log = Expected

-----------------------------------------------------------------------------
(* The app peer: connection, commands and their answers *)

StatesStep == pc = "states" /\ pc' # "states"

Names(seq) == {seq[i].event : i \in 1 .. Len(seq)}

(* C16: an iteration that finds the app peer newly registered pushes       *)
(* device_info to it, whatever the coordinator state is.                   *)
C16_DeviceInfoOnConnect ==
    [][(StatesStep /\ is_client_just_connected(client_messages, "app")) =>
        "device_info" \in Names(out')]_vars

LockDoor == Json([command |-> "lock_door"])
UnlockDoor == Json([command |-> "unlock_door"])
DeviceInit == Json([command |-> "device_init", config |-> "limits"])
GetDeviceInfo == Json([command |-> "get_device_info"])

(* The app's door and information commands, in IDLE and, by way of a dump  *)
(* that no sensor ends, in ERROR; a message that is not JSON and a command *)
(* the registry does not know                                              *)
DoorCommands ==
    {LockDoor, UnlockDoor, DeviceInit, GetDeviceInfo, DumpPlastic, RestoreDevice,
     Text("lock_door"), Json([command |-> "close_shutter"])}

NextApp ==
    \/ RunTop
    \/ RunError
    \/ RunIdle
    \/ RunOther
    \/ RunCommands
    \/ RunEvents
    \/ HandlerRegister({"app"})
    \/ HandlerMessage("app", DoorCommands)
    \/ Advance

SpecApp == Init /\ [][NextApp]_vars

DeviceInfos(seq) == {seq[i].data : i \in {j \in 1 .. Len(seq) : seq[j].event = "device_info"}}

C18_BadMessageAnswered ==
    [][((CommandsStep \/ ErrorStep) /\ Truthy(AppSlot)
            /\ (AppSlot.t = "text" \/ AppCommand \notin command_handlers)) =>
        ("command_error" \in Names(out') /\ app'.state = app.state)]_vars

-----------------------------------------------------------------------------
(* Modbus failures: slave.set_values or slave.get_values raises inside a   *)
(* call of the driver.  The dump path: the commands and the left sensor.   *)

(* Application.handle_container_dump when the write of bit 4 or 5 raises:  *)
(* ModbusRegister.set_bit has changed the word, the event is not reached   *)
handle_container_dump_raises(w, container_type) ==
    IF container_type = "plastic"
    THEN [w EXCEPT !.app.state = DUMPING_PLASTIC,
                   !.app.dump_started_time = 0,
                   !.cmd = cmd_force_move_carriage_left(@)]
    ELSE [w EXCEPT !.app.state = DUMPING_ALUMINUM,
                   !.app.dump_started_time = 0,
                   !.cmd = cmd_force_move_carriage_right(@)]

(* Application._handle_dumping_state when the write of the cleared word    *)
(* raises: reset_all_bits has zeroed the word, nothing after it is reached *)
handle_dumping_state_raises(w) == [w EXCEPT !.cmd = cmd_full_clear_register(@)]

(* the exception leaves the loop of run(): lines 330-333, stop() *)
CommitRaised(w) ==
    /\ app' = w.app
    /\ cmd' = w.cmd
    /\ client_messages' = w.msgs
    /\ out' = w.out
    /\ to_vision' = w.tx
    /\ started' = w.started
    /\ log' = Logged(log, w.out)
    /\ workers' = Spawn(workers, w.started)
    /\ episode' = Episode(episode, w.out)
    /\ latch_age' = [b \in {6, 7} |-> IF get_bit(w.cmd, b) = 0 THEN NoTime ELSE w.latch[b]]
    /\ pc' = "stopped"
    /\ poller' = "stopped"
    /\ running' = FALSE
    /\ io_failures' = io_failures + 1
    /\ UNCHANGED <<status, ticked, arms, clients, conns, ret, received, returned, script,
                   bus, counters, device, door_sent, vision_peer>>

RunTopRaises ==
    /\ pc = "top" /\ io_failures < MaxFailures
    /\ app.state \in {DUMPING_PLASTIC, DUMPING_ALUMINUM}
    /\ DumpSensor(status, app.state) = 1 \/ app.dump_started_time > dump_timeout
    /\ CommitRaised(handle_dumping_state_raises(W))

RunCommandsRaises ==
    /\ pc = "commands" /\ io_failures < MaxFailures
    /\ AppCommand = "dump_container" /\ AppParam \in {"plastic", "aluminum"}
    /\ CommitRaised(handle_container_dump_raises(
          [W EXCEPT !.msgs = get_command_store(@, "app")], AppParam))

RunErrorRaises ==
    /\ pc = "states" /\ app.state = ERROR /\ io_failures < MaxFailures
    /\ AppCommand = "dump_container" /\ AppParam \in {"plastic", "aluminum"}
    /\ CommitRaised(handle_container_dump_raises(
          [W EXCEPT !.msgs = get_command_store(@, "app")], AppParam))

(* PLC.update_data when slave.get_values raises: sync_from_device has not  *)
(* assigned, and the exception ends the loop of PLC_update_data            *)
UpdateDataRaises ==
    /\ poller = "running" /\ io_failures < MaxFailures
    /\ poller' = "stopped"
    /\ io_failures' = io_failures + 1
    /\ UNCHANGED <<app, cmd, status, client_messages, pc, ticked, out, to_vision, started,
                   latch_age, arms, clients, conns, ret, received, returned, running, script,
                   log, bus, counters, door_sent, workers, device, episode, vision_peer>>

NextModbus ==
    \/ RunTop
    \/ RunError
    \/ RunIdle
    \/ RunOther
    \/ RunCommands
    \/ RunEvents
    \/ RunTopRaises
    \/ RunCommandsRaises
    \/ RunErrorRaises
    \/ UpdateData({1})
    \/ UpdateDataRaises
    \/ HandlerRegister({"app"})
    \/ HandlerMessage("app", {DumpPlastic, RestoreDevice})
    \/ Advance

SpecModbus == Init /\ [][NextModbus]_vars

(* C19: a Modbus read or write that fails inside a driver call leaves the  *)
(* cached words as they were before the call, and both the poller and the  *)
(* coordinator loop keep running.                                          *)
C19_FailureSwallowed ==
    [][io_failures' # io_failures =>
        /\ cmd' = cmd /\ status' = status
        /\ pc' # "stopped" /\ poller' = "running"]_vars

-----------------------------------------------------------------------------
(* Photo requests: Application._handle_get_photo_worker *)

GetPhoto == Json([command |-> "get_photo"])
PhotoReply == Json([photo_base64 |-> "image", timestamp |-> "t1"])
PhotoError == Json([error |-> "camera_busy"])
VisionMsgs == {PhotoReply, PhotoError, Text("plastic"), Json([status |-> "ok"])}

(* variant: the worker keeps waiting after it has answered *)
photo_worker_poll_staying(wk, response, saved) ==
    IF ~Truthy(response) THEN [wk EXCEPT !.polled = TRUE]
    ELSE IF response.t = "json" /\ "photo_base64" \in DOMAIN response.obj
    THEN LET data == response.obj
             timestamp == IF "timestamp" \in DOMAIN data THEN data["timestamp"] ELSE None
             response_data == IF saved
                              THEN [timestamp |-> timestamp, photo_path |-> "path"]
                              ELSE [timestamp |-> timestamp, error |-> "save_failed"]
         IN  [wk EXCEPT !.polled = TRUE,
                        !.sent = Append(@, Event("photo_ready", response_data))]
    ELSE IF response.t = "json" /\ "error" \in DOMAIN response.obj
    THEN [wk EXCEPT !.polled = TRUE,
                    !.sent = Append(@, Event("photo_ready", [error |-> response.obj["error"]]))]
    ELSE [wk EXCEPT !.polled = TRUE]

(* lines 576-581: the stale reply is dropped, vision is asked, the wait begins *)
photo_worker_begin(wk) ==
    [wk EXCEPT !.at = "poll", !.age = 0, !.asked = TRUE]

(* lines 583-611: one pass of the wait on what the vision slot held; saved *)
(* is whether _save_photo returned a path                                  *)
photo_worker_poll(wk, response, saved) ==
    IF ~Truthy(response) THEN [wk EXCEPT !.polled = TRUE]
    ELSE IF response.t = "json" /\ "photo_base64" \in DOMAIN response.obj
    THEN LET data == response.obj
             timestamp == IF "timestamp" \in DOMAIN data THEN data["timestamp"] ELSE None
             response_data == IF saved
                              THEN [timestamp |-> timestamp, photo_path |-> "path"]
                              ELSE [timestamp |-> timestamp, error |-> "save_failed"]
         IN  [wk EXCEPT !.at = "done",
                        !.sent = Append(@, Event("photo_ready", response_data))]
    ELSE IF response.t = "json" /\ "error" \in DOMAIN response.obj
    THEN [wk EXCEPT !.at = "done",
                    !.sent = Append(@, Event("photo_ready", [error |-> response.obj["error"]]))]
    ELSE [wk EXCEPT !.polled = TRUE]

(* lines 613-614: the wait ran out, or the running flag was lowered *)
photo_worker_timeout(wk) ==
    [wk EXCEPT !.at = "done",
               !.sent = Append(@, Event("photo_ready", [error |-> "vision_unavailable"]))]

beside_workers == <<app, cmd, status, pc, ticked, out, to_vision, started, latch_age, arms,
                    others, log, door_sent, device, episode, vision_peer>>

WorkerBegin(i) ==
    /\ workers[i].at = "begin"
    /\ client_messages' = get_command_store(client_messages, "vision")
    /\ workers' = [workers EXCEPT ![i] = photo_worker_begin(@)]
    /\ UNCHANGED beside_workers

WorkerPoll(i) ==
    /\ workers[i].at = "poll" /\ running /\ workers[i].age < photo_timeout
    /\ client_messages' = get_command_store(client_messages, "vision")
    /\ \E saved \in BOOLEAN :
          workers' = [workers EXCEPT
                         ![i] = photo_worker_poll(@, get_command(client_messages, "vision"), saved)]
    /\ UNCHANGED beside_workers

WorkerTimeout(i) ==
    /\ workers[i].at = "poll" /\ (~running \/ workers[i].age >= photo_timeout)
    /\ workers' = [workers EXCEPT ![i] = photo_worker_timeout(@)]
    /\ UNCHANGED <<client_messages, beside_workers>>

(* app asks for a photo while a thread of the model is free to take it *)
PhotoRequest ==
    /\ \E i \in DOMAIN workers : workers[i].at = "none"
    /\ HandlerMessage("app", {GetPhoto})

NextPhoto ==
    \/ RunTop
    \/ RunIdle
    \/ RunCommands
    \/ RunEvents
    \/ HandlerRegister({"app", "vision"})
    \/ PhotoRequest
    \/ HandlerMessage("vision", VisionMsgs)
    \/ \E i \in DOMAIN workers : WorkerBegin(i)
    \/ \E i \in DOMAIN workers : WorkerPoll(i)
    \/ \E i \in DOMAIN workers : WorkerTimeout(i)
    \/ Advance

SpecPhoto == Init /\ [][NextPhoto]_vars

PhotoAnswers ==
    {Event("photo_ready", [timestamp |-> "t1", photo_path |-> "path"]),
     Event("photo_ready", [timestamp |-> "t1", error |-> "save_failed"]),
     Event("photo_ready", [error |-> "camera_busy"]),
     Event("photo_ready", [error |-> "vision_unavailable"])}

CoordinatorStep == RunTop \/ RunIdle \/ RunCommands \/ RunEvents

(* C20: a worker that has finished has sent exactly one photo_ready, of one *)
(* of the four forms; a worker still waiting has sent none and has waited  *)
(* no longer than photo_timeout, vision_unavailable being sent only once   *)
(* photo_timeout has passed; and while a worker waits the coordinator's    *)
(* next step is enabled                                                    *)
C20_OnePhotoReady ==
    \A i \in DOMAIN workers :
        /\ workers[i].at = "done" =>
              /\ Len(workers[i].sent) = 1 /\ workers[i].sent[1] \in PhotoAnswers
              /\ workers[i].sent[1].data = [error |-> "vision_unavailable"] =>
                    workers[i].age >= photo_timeout
        /\ workers[i].at \in {"none", "begin", "poll"} => workers[i].sent = <<>>
        /\ workers[i].at = "poll" =>
              /\ workers[i].age <= photo_timeout
              /\ pc # "stopped" => ENABLED CoordinatorStep

C20_Witness ==
    /\ workers[1].at = "done" /\ workers[1].sent[1].data = [timestamp |-> "t1", photo_path |-> "path"]
    /\ workers[2].at = "poll" /\ workers[2].age = 1 /\ ticked

-----------------------------------------------------------------------------
(* The command register under concurrent callers: PLC.cmd_* and            *)
(* ModbusRegister.set_bit / reset_all_bits, statement by statement          *)

RegBits == {4, 7, 8}

beside_register == <<app, status, client_messages, pc, ticked, out, to_vision, started,
                     latch_age, arms, clients, conns, ret, received, returned, poller, running,
                     io_failures, script, log, counters, door_sent, workers, episode, vision_peer>>

(* with self._modbus_lock: the caller enters one cmd_* method *)
Cmd_enter(c) ==
    /\ bus.calls[c].at = "idle" /\ bus.lock = 0
    /\ \E call \in {[at |-> "locked", op |-> "set_bit", bit |-> b, st |-> v] :
                       b \in RegBits, v \in {0, 1}}
                   \cup {[at |-> "locked", op |-> "reset_all_bits", bit |-> 0, st |-> 0]} :
          bus' = [bus EXCEPT !.lock = c, !.calls[c] = call]
    /\ UNCHANGED <<cmd, device, beside_register>>

(* modbus_register.py lines 12-15 and 34: the cached word is changed *)
Cmd_assign(c) ==
    /\ bus.calls[c].at = "locked"
    /\ cmd' = IF bus.calls[c].op = "reset_all_bits" THEN reset_all_bits(cmd)
              ELSE set_bit(cmd, bus.calls[c].bit, bus.calls[c].st)
    /\ bus' = [bus EXCEPT !.calls[c].at = "assigned"]
    /\ UNCHANGED <<device, beside_register>>

(* ModbusRegister.sync_to_device: the cached word is written to the device *)
Cmd_sync_to_device(c) ==
    /\ bus.calls[c].at = "assigned"
    /\ device' = cmd
    /\ bus' = [bus EXCEPT !.calls[c].at = "synced"]
    /\ UNCHANGED <<cmd, beside_register>>

(* the locks are released and the method returns *)
Cmd_return(c) ==
    /\ bus.calls[c].at = "synced"
    /\ bus' = [bus EXCEPT !.lock = 0, !.calls[c] = NoCall]
    /\ UNCHANGED <<cmd, device, beside_register>>

NextRegister ==
    \/ \E c \in Callers : Cmd_enter(c)
    \/ \E c \in Callers : Cmd_assign(c)
    \/ \E c \in Callers : Cmd_sync_to_device(c)
    \/ \E c \in Callers : Cmd_return(c)

SpecRegister == Init /\ [][NextRegister]_vars

(* C21: when a call of cmd_full_clear_register returns, the cached command *)
(* word and the word on the device are both zero, whatever the word was    *)
(* and whatever other callers wrote before                                 *)
C21_FullClearZero ==
    [][\A c \in Callers :
          (bus.calls[c].op = "reset_all_bits" /\ bus.calls[c].at = "synced"
             /\ bus'.calls[c].at = "idle") => cmd' = 0 /\ device' = 0]_vars

C21_Witness ==
    /\ \E c \in Callers : bus.calls[c].op = "reset_all_bits" /\ bus.calls[c].at = "assigned"
    /\ cmd = 0 /\ get_bit(device, 8) = 1 /\ get_bit(device, 7) = 1

-----------------------------------------------------------------------------
(* Detection episodes *)

(* C22: every container_detected is followed by exactly one outcome event, *)
(* container_recognized or container_not_recognized, before the next       *)
(* container_detected is sent                                              *)
C22_OneOutcomePerDetection ==
    [][pc' # pc => ~Unpaired(episode, out')]_vars

-----------------------------------------------------------------------------
(* The end of a dump and the counters *)

(* PLC.update_data, lines 57-58: a counter register follows the device, *)
(* which counts the containers it has taken                              *)
UpdateCounters ==
    /\ poller = "running" /\ running
    /\ \E k \in {"bank", "bottle"} :
          /\ counters[k] < MaxCount
          /\ counters' = [counters EXCEPT ![k] = @ + 1]
    /\ UNCHANGED <<app, cmd, status, client_messages, pc, ticked, out, to_vision, started,
                   latch_age, arms, clients, conns, ret, received, returned, poller, running,
                   io_failures, script, bus, log, door_sent, workers, device, episode, vision_peer>>

NextCounters ==
    \/ RunTop
    \/ RunError
    \/ RunIdle
    \/ RunOther
    \/ RunCommands
    \/ RunEvents
    \/ UpdateData({1, 3})
    \/ UpdateCounters
    \/ HandlerRegister({"app"})
    \/ HandlerMessage("app", {DumpPlastic, DumpAluminum})
    \/ Advance

SpecCounters == Init /\ [][NextCounters]_vars

(* C23: an iteration that begins in DUMPING_PLASTIC (DUMPING_ALUMINUM) with *)
(* the left (right) carriage sensor at 1 writes the command word to zero,  *)
(* sets IDLE, clears dump_started_time and emits container_accepted with   *)
(* that container type and the value of the bottle (bank) counter register *)
C23_DumpAccepted ==
    [][\A d \in {DUMPING_PLASTIC, DUMPING_ALUMINUM} :
          (TopStep /\ app.state = d
             /\ (IF d = DUMPING_PLASTIC THEN get_bit(status, 1) ELSE get_bit(status, 3)) = 1) =>
            /\ cmd' = 0 /\ device' = 0
            /\ app'.state = IDLE
            /\ app'.dump_started_time = NoTime
            /\ out' = <<Event("container_accepted",
                          [container_type |-> IF d = DUMPING_PLASTIC THEN "plastic" ELSE "aluminum",
                           counter |-> IF d = DUMPING_PLASTIC THEN counters.bottle
                                       ELSE counters.bank])>>]_vars

C23_Witness ==
    /\ pc = "states" /\ app.state = IDLE
    /\ out = <<Event("container_accepted", [container_type |-> "aluminum", counter |-> 1])>>
    /\ counters = [bank |-> 1, bottle |-> 2]
    /\ cmd = 0

-----------------------------------------------------------------------------
(* Hardware errors and the ERROR state *)

NextHardware ==
    \/ RunTop
    \/ RunError
    \/ RunIdle
    \/ RunOther
    \/ RunCommands
    \/ RunEvents
    \/ UpdateData({1, 5, 12})
    \/ HandlerRegister({"app"})
    \/ HandlerMessage("app", {DumpPlastic, RestoreDevice})
    \/ Advance

SpecHardware == Init /\ [][NextHardware]_vars

(* C24: the step that reports the rising edges of the four error bits      *)
(* leaves the coordinator state as it was, and a step enters ERROR only    *)
(* from DUMPING_PLASTIC or DUMPING_ALUMINUM, at the top of an iteration,   *)
(* when the carriage sensor is not reached and dump_timeout has passed     *)
C24_ErrorOnlyOnDumpTimeout ==
    [][/\ EventsStep => app'.state = app.state
       /\ (app.state # ERROR /\ app'.state = ERROR) =>
             /\ TopStep
             /\ app.state \in {DUMPING_PLASTIC, DUMPING_ALUMINUM}
             /\ DumpSensor(status, app.state) # 1
             /\ app.dump_started_time > dump_timeout]_vars

(* the rising edge of left_movement_error was reported during a dump *)
C24_Witness ==
    /\ pc = "top" /\ app.state = DUMPING_PLASTIC
    /\ out = <<CodeError("left_movement_error")>>

-----------------------------------------------------------------------------
(* What lowers the fusion latches *)

FullClear == Json([command |-> "cmd_full_clear_register"])

NextLatch ==
    \/ RunTop
    \/ RunWaitingVision
    \/ RunError
    \/ RunIdle
    \/ RunOther
    \/ RunCommands
    \/ RunEvents
    \/ UpdateData({0, 1, 7})
    \/ HandlerRegister({"app", "vision"})
    \/ HandlerMessage("app", {DumpPlastic, FullClear})
    \/ HandlerMessage("vision", {Text("plastic")})
    \/ Advance

SpecLatch == Init /\ [][NextLatch]_vars

(* lines 190-202: the timeout of the latch of bit b is due at this iteration *)
CarriageResetDue(b) ==
    /\ TopStep
    /\ IF b = 7 THEN app.carriage_moving_bottle ELSE app.carriage_moving_bank
    /\ app.carriage_moving_start_time # NoTime
    /\ app.carriage_moving_start_time > carriage_reset_timeout

(* a step that calls cmd_full_clear_register: the end or the timeout of a *)
(* dump, or app's bridge command                                           *)
FullClearStep ==
    \/ /\ TopStep /\ app.state \in {DUMPING_PLASTIC, DUMPING_ALUMINUM}
       /\ DumpSensor(status, app.state) = 1 \/ app.dump_started_time > dump_timeout
    \/ CommandsStep /\ AppCommand = "cmd_full_clear_register"

(* C25 as stated: a command bit 6 or 7 that fusion has set is lowered only *)
(* by the carriage_reset_timeout step of the main loop                     *)
C25_OnlyCarriageReset ==
    [][\A b \in {6, 7} :
          (latch_age[b] # NoTime /\ get_bit(cmd', b) = 0) => CarriageResetDue(b)]_vars

(* C25 amended: it is lowered only by the carriage_reset_timeout step or *)
(* by a step that calls cmd_full_clear_register                           *)
C25_CarriageResetOrFullClear ==
    [][\A b \in {6, 7} :
          (latch_age[b] # NoTime /\ get_bit(cmd', b) = 0) =>
              CarriageResetDue(b) \/ FullClearStep]_vars

(* the end of a dump has just cleared the word while the latch of bit 7, *)
(* set by fusion, had not yet timed out                                   *)
C25_Witness ==
    /\ pc = "states" /\ app.state = IDLE /\ cmd = 0
    /\ Len(out) = 1 /\ out[1].event = "container_accepted"
    /\ app.carriage_moving_bottle
    /\ app.carriage_moving_start_time # NoTime
    /\ app.carriage_moving_start_time <= carriage_reset_timeout

-----------------------------------------------------------------------------
(* The vision slot shared by the coordinator and the photo workers *)

(* app asks for one photo *)
PhotoRequestAlone ==
    /\ \A i \in DOMAIN workers : workers[i].at = "none"
    /\ PhotoRequest

(* the vision peer answers the get_photo it was sent *)
VisionPhotoReply ==
    /\ \E i \in DOMAIN workers : workers[i].at = "poll"
    /\ HandlerMessage("vision", {PhotoReply})

(* the vision peer answers the classifier request it was sent *)
VisionClassifierReply ==
    /\ app.state = WAITING_VISION
    /\ HandlerMessage("vision", {Text("plastic")})

NextShared ==
    \/ RunTop
    \/ RunWaitingVision
    \/ RunIdle
    \/ RunCommands
    \/ RunEvents
    \/ UpdateData({0, 7})
    \/ HandlerRegister({"app", "vision"})
    \/ PhotoRequestAlone
    \/ VisionPhotoReply
    \/ VisionClassifierReply
    \/ \E i \in DOMAIN workers : WorkerBegin(i)
    \/ \E i \in DOMAIN workers : WorkerPoll(i)
    \/ \E i \in DOMAIN workers : WorkerTimeout(i)
    \/ Advance

SpecShared == Init /\ [][NextShared]_vars

(* C26: pending_vision_response is plastic, aluminum, none or absent, and *)
(* current_plc_detection is plastic, aluminum or none, in every state      *)
C26_ClassifierValues ==
    /\ app.pending_vision_response \in
          {Text("plastic"), Text("aluminum"), Text("none"), PyNone}
    /\ app.current_plc_detection \in {"plastic", "aluminum", None}

(* C27: a classifier reply that lies in the vision slot while the state is *)
(* WAITING_VISION and vision_timeout has not passed is taken out of the    *)
(* slot, the vision peer staying registered, by the coordinator's          *)
(* WAITING_VISION branch and by nothing else                               *)
C27_ReplyReachesCoordinator ==
    [][(/\ app.state = WAITING_VISION
        /\ app.vision_request_time <= vision_timeout
        /\ VisionSlot = Text("plastic")
        /\ VisionSlot' = Empty
        /\ ~is_client_just_connected(client_messages', "vision")) => WaitingVisionStep]_vars

-----------------------------------------------------------------------------
(* A vision peer that answers each classifier request once, in the order   *)
(* of the requests, after any delay                                        *)

(* the peer has been sent the requests of tx *)
Asked(vp, tx) ==
    LET n == Cardinality({i \in 1 .. Len(tx) : tx[i] \in {Text("bottle_exist"), Text("bank_exist")}})
    IN  [vp EXCEPT !.owed = IF @ + n > MaxOwed THEN MaxOwed ELSE @ + n]

RunIdleAsking ==
    /\ IdleIteration
    /\ vision_peer' = Asked(vision_peer, idle_veil(W, status).tx)

(* the peer answers its oldest request; the answer is late unless that is *)
(* the request of the WAITING_VISION episode now open                     *)
VisionAnswers ==
    /\ vision_peer.owed > 0
    /\ "vision" \in DOMAIN client_messages
    /\ client_messages' = [client_messages EXCEPT !["vision"] = Slot(Text("plastic"), FALSE)]
    /\ vision_peer' = [owed |-> vision_peer.owed - 1,
                       stale |-> vision_peer.owed > 1 \/ app.state # WAITING_VISION]
    /\ UNCHANGED <<app, cmd, status, pc, ticked, out, to_vision, started, latch_age, arms,
                   others, log, door_sent, workers, device, episode>>

NextLate ==
    \/ RunTop
    \/ RunWaitingVision
    \/ RunIdleAsking
    \/ RunCommands
    \/ RunEvents
    \/ UpdateData({0, 7})
    \/ HandlerRegister({"vision"})
    \/ VisionAnswers
    \/ Advance

SpecLate == Init /\ [][NextLate]_vars

(* C28: the reply that a WAITING_VISION iteration takes from the vision    *)
(* slot and fuses with the PLC detection answers the request of this       *)
(* episode, not an earlier one                                             *)
C28_FusedReplyIsCurrent ==
    [][(/\ WaitingVisionStep
        /\ app.pending_vision_response = PyNone
        /\ Truthy(VisionSlot)
        /\ PlcInput # None) => ~vision_peer.stale]_vars

-----------------------------------------------------------------------------
(* The app slot between two drains *)

(* the events of dispatching the one message m from the state as it is *)
DispatchOut(m) ==
    IF Truthy(m) /\ parse_command(m)[1] # None
    THEN dispatch_command([W EXCEPT !.msgs = get_command_store(@, "app")], status,
                          parse_command(m)[1], parse_command(m)[2]).out
    ELSE <<>>

C30_FlagUntilFirstCall ==
    [][(is_client_just_connected(client_messages, "app")
          /\ ~is_client_just_connected(client_messages', "app")) => IdleStep]_vars

-----------------------------------------------------------------------------
(* Disconnect of a connection whose name was registered again *)

(* C31: when a connection whose peer name has since been registered by a   *)
(* later socket disconnects, the later socket stays in the registry under  *)
(* the name (so sends to the name still find it) and the name's slot       *)
(* stays.                                                                  *)
C31_LaterConnectionStays ==
    [][\A s \in Sockets :
        (/\ Handler_finally(s)
         /\ conns[s].at = "loop"
         /\ conns[s].name \in DOMAIN clients
         /\ clients[conns[s].name] # s)
        => /\ conns[s].name \in DOMAIN clients'
           /\ clients'[conns[s].name] = clients[conns[s].name]
           /\ conns[s].name \in DOMAIN client_messages'
           /\ client_messages'[conns[s].name] = client_messages[conns[s].name]]_vars

-----------------------------------------------------------------------------
(* A second container: the first one is placed and its veil edge arms the   *)
(* request; it is taken out while the coordinator is in a state other than  *)
(* IDLE; once the loop has run with the receiver empty (check_receiver_state *)
(* has read it empty) a new container is placed, the coordinator again in a  *)
(* state other than IDLE, and the hand leaves the veil.  script counts the   *)
(* outside's steps from 11.                                                 *)

Rearm_first ==
    /\ script = 0 /\ app.state = IDLE /\ status = 0
    /\ \E b \in {6, 7} : status' = set_bit(status, b, 1)
    /\ script' = 11
    /\ UNCHANGED beside_status

Rearm_veil_up ==
    /\ script \in {11, 15}
    /\ status' = set_bit(status, 0, 1)
    /\ script' = script + 1
    /\ UNCHANGED beside_status

Rearm_veil_down ==
    /\ script \in {12, 16} /\ app.prev_veil_state = 1
    /\ status' = set_bit(status, 0, 0)
    /\ script' = script + 1
    /\ UNCHANGED beside_status

Rearm_removed ==
    /\ script = 13 /\ app.inference_requested /\ app.prev_receiver_state = 1
    /\ app.state # IDLE
    /\ status' = set_bit(set_bit(status, 6, 0), 7, 0)
    /\ script' = 14
    /\ UNCHANGED beside_status

Rearm_second ==
    /\ script = 14 /\ app.prev_receiver_state = 0 /\ app.state # IDLE
    /\ \E b \in {6, 7} : status' = set_bit(status, b, 1)
    /\ script' = 15
    /\ UNCHANGED beside_status

NextRearm ==
    \/ RunTop
    \/ RunWaitingVision
    \/ RunError
    \/ RunIdle
    \/ RunOther
    \/ RunCommands
    \/ RunEvents
    \/ HandlerRegister({"app"})
    \/ HandlerMessage("app", {DumpPlastic})
    \/ Rearm_first
    \/ Rearm_veil_up
    \/ Rearm_veil_down
    \/ Rearm_removed
    \/ Rearm_second
    \/ Advance

SpecRearm == Init /\ [][NextRearm]_vars

(* C32: the IDLE iteration that reads the veil's falling edge for the new   *)
(* container sends a vision request and goes to WAITING_VISION, in whatever *)
(* state the coordinator was while the receiver was empty.                  *)
C32_NewContainerArms ==
    [][(/\ IdleStep
        /\ script = 17
        /\ app.prev_veil_state = 1
        /\ get_state_veil(status) = 0)
       => (app'.state = WAITING_VISION /\ to_vision' # <<>>)]_vars

-----------------------------------------------------------------------------
(* The token that asks the vision peer for a classification *)

(* C33 as stated: on arming WAITING_VISION the payload sent to the vision   *)
(* peer is the literal bottle_exist, whatever the provisional detection.    *)
C33_AlwaysBottleExist ==
    [][(IdleStep /\ app'.state = WAITING_VISION)
       => to_vision' = <<Text("bottle_exist")>>]_vars

(* C33: on arming WAITING_VISION exactly one payload is sent to the vision  *)
(* peer: bank_exist when the provisional detection is aluminum, and         *)
(* bottle_exist when it is plastic or unknown.                              *)
C33_TokenFollowsDetection ==
    [][(IdleStep /\ app'.state = WAITING_VISION)
       => to_vision' = <<Text(IF app'.current_plc_detection = "aluminum"
                              THEN "bank_exist" ELSE "bottle_exist")>>]_vars

(* the arming iteration has just sent bank_exist for a can *)
C33_Witness ==
    /\ pc = "commands" /\ app.state = WAITING_VISION
    /\ app.current_plc_detection = "aluminum"
    /\ to_vision = <<Text("bank_exist")>>

-----------------------------------------------------------------------------
(* The timestamps behind the three timers *)

(* C34: a timer that is armed has its timestamp: in DUMPING_PLASTIC and     *)
(* DUMPING_ALUMINUM dump_started_time is set, in WAITING_VISION             *)
(* vision_request_time is set, and while carriage_moving_bottle or          *)
(* carriage_moving_bank is raised carriage_moving_start_time is set.        *)
C34_TimersSet ==
    /\ app.state \in {DUMPING_PLASTIC, DUMPING_ALUMINUM} => app.dump_started_time # NoTime
    /\ app.state = WAITING_VISION => app.vision_request_time # NoTime
    /\ (app.carriage_moving_bottle \/ app.carriage_moving_bank)
          => app.carriage_moving_start_time # NoTime

-----------------------------------------------------------------------------
(* The two directions of the carriage *)

ForceLeft == Json([command |-> "cmd_force_move_carriage_left"])
ForceRight == Json([command |-> "cmd_force_move_carriage_right"])

(* The app's commands that write command bits 4 and 5 or clear the word:   *)
(* the two dumps and the bridge commands of the registry; and a dump with  *)
(* a type the handler does not know and one with no type                   *)
DumpMisspelt == Json([command |-> "dump_container", container_type |-> "aluminium"])
DumpUntyped == Json([command |-> "dump_container"])

CarriageCommands ==
    {DumpPlastic, DumpAluminum, DumpMisspelt, DumpUntyped, ForceLeft, ForceRight, FullClear}

NextCarriage ==
    \/ RunTop
    \/ RunError
    \/ RunIdle
    \/ RunOther
    \/ RunCommands
    \/ RunEvents
    \/ UpdateData({1, 3})
    \/ HandlerRegister({"app"})
    \/ HandlerMessage("app", CarriageCommands)
    \/ Advance

SpecCarriage == Init /\ [][NextCarriage]_vars

(* C35: command bit 4 (force carriage left) and command bit 5 (force        *)
(* carriage right) are never both set in the command word.                  *)
C35_OneDirection == ~(get_bit(cmd, 4) = 1 /\ get_bit(cmd, 5) = 1)

-----------------------------------------------------------------------------
(* device_init and its configuration *)

DeviceInitEmpty == Json([command |-> "device_init", config |-> EmptyObject])
DeviceInitTyped ==
    Json([command |-> "device_init", config |-> "limits", container_type |-> "plastic"])

NextDeviceInit ==
    \/ RunTop
    \/ RunError
    \/ RunIdle
    \/ RunOther
    \/ RunCommands
    \/ RunEvents
    \/ HandlerRegister({"app"})
    \/ HandlerMessage("app", {DeviceInit, DeviceInitEmpty, DeviceInitTyped,
                              DumpPlastic, RestoreDevice})
    \/ Advance

SpecDeviceInit == Init /\ [][NextDeviceInit]_vars

(* C36: the IDLE iteration that drains a device_init command with a config  *)
(* key stores the value of the key in device_config and hands app exactly   *)
(* device_init_ack with status ok.                                          *)
C36_DeviceInitAcked ==
    [][(/\ CommandsStep /\ app.state = IDLE
        /\ parse_command(AppSlot)[1] = "device_init"
        /\ "config" \in DOMAIN AppSlot.obj)
       => /\ app'.device_config = AppSlot.obj["config"]
          /\ out' = <<Event("device_init_ack", [status |-> "ok"])>>]_vars

-----------------------------------------------------------------------------
(* dump_container without a usable type *)

-----------------------------------------------------------------------------
(* The Register Cell by itself: callers of ModbusRegister's own methods on  *)
(* one cell, statement by statement.  cmd is the cell's word, device the    *)
(* holding register, bus.cell the thread that holds ModbusRegister.lock.    *)

CellValues == {Pow2(4)}

CellCalls ==
    {[at |-> "locked", op |-> "set_bit", bit |-> b, st |-> v] : b \in RegBits, v \in {0, 1}}
    \cup {[at |-> "locked", op |-> "set_value", bit |-> 0, st |-> v] : v \in CellValues}
    \cup {[at |-> "locked", op |-> "reset_all_bits", bit |-> 0, st |-> 0]}

(* variant: the mutator does not take the cell's lock *)
Cell_enter_unlocked(c) ==
    /\ bus.calls[c].at = "idle"
    /\ \E call \in CellCalls : bus' = [bus EXCEPT !.calls[c] = call]
    /\ UNCHANGED <<cmd, device, beside_register>>

(* lines 11, 24, 33: with self.lock, in set_bit, set_value or reset_all_bits *)
Cell_enter(c) ==
    /\ bus.calls[c].at = "idle" /\ bus.cell = 0
    /\ \E call \in CellCalls : bus' = [bus EXCEPT !.cell = c, !.calls[c] = call]
    /\ UNCHANGED <<cmd, device, beside_register>>

(* lines 12-15, 25, 34: the word is changed *)
Cell_assign(c) ==
    /\ bus.calls[c].at = "locked"
    /\ cmd' = CASE bus.calls[c].op = "set_bit" -> set_bit(cmd, bus.calls[c].bit, bus.calls[c].st)
                [] bus.calls[c].op = "set_value" -> bus.calls[c].st
                [] OTHER -> reset_all_bits(cmd)
    /\ bus' = [bus EXCEPT !.calls[c].at = "assigned"]
    /\ UNCHANGED <<device, beside_register>>

(* lines 16, 26, 35 and 37-38: sync_to_device writes the word to the device *)
Cell_sync_to_device(c) ==
    /\ bus.calls[c].at = "assigned"
    /\ device' = cmd
    /\ bus' = [bus EXCEPT !.calls[c].at = "synced"]
    /\ UNCHANGED <<cmd, beside_register>>

(* the with block ends: the lock is released and the mutator returns *)
Cell_return(c) ==
    /\ bus.calls[c].at = "synced"
    /\ bus' = [bus EXCEPT !.cell = 0, !.calls[c] = NoCall]
    /\ UNCHANGED <<cmd, device, beside_register>>

NextCell ==
    \/ \E c \in Callers : Cell_enter(c)
    \/ \E c \in Callers : Cell_assign(c)
    \/ \E c \in Callers : Cell_sync_to_device(c)
    \/ \E c \in Callers : Cell_return(c)

SpecCell == Init /\ [][NextCell]_vars

(* C38: when set_bit, set_value or reset_all_bits returns, the holding      *)
(* register of the device equals the cell's word, whatever mutators other   *)
(* threads have called on the cell meanwhile.                               *)
C38_WrittenBeforeReturn ==
    [][\A c \in Callers :
          (bus.calls[c].at = "synced" /\ bus'.calls[c].at = "idle") => device' = cmd']_vars

(* a set_bit on top of an earlier set_value has been written to the device  *)
(* and is about to return                                                   *)
C38_Witness ==
    /\ bus.calls[1].op = "set_bit" /\ bus.calls[1].bit = 7 /\ bus.calls[1].at = "synced"
    /\ bus.calls[2].at = "idle"
    /\ cmd = Pow2(4) + Pow2(7) /\ device = cmd

-----------------------------------------------------------------------------
(* sync_from_device on a cell that other threads write *)

(* line 41: the device is read, the cell's lock not held *)
Cell_get_values(c) ==
    /\ bus.calls[c].at = "idle"
    /\ bus' = [bus EXCEPT !.calls[c] =
                  [at |-> "read", op |-> "sync_from_device", bit |-> 0, st |-> device]]
    /\ UNCHANGED <<cmd, device, beside_register>>

(* lines 42-44: the word read is stored under the cell's lock *)
Cell_store(c) ==
    /\ bus.calls[c].at = "read" /\ bus.cell = 0
    /\ cmd' = bus.calls[c].st
    /\ bus' = [bus EXCEPT !.calls[c] = NoCall]
    /\ UNCHANGED <<device, beside_register>>

NextCellSync ==
    \/ \E c \in Callers : Cell_enter(c)
    \/ \E c \in Callers : Cell_assign(c)
    \/ \E c \in Callers : Cell_sync_to_device(c)
    \/ \E c \in Callers : Cell_return(c)
    \/ \E c \in Callers : Cell_get_values(c)
    \/ \E c \in Callers : Cell_store(c)

SpecCellSync == Init /\ [][NextCellSync]_vars

Quiescent == \A c \in Callers : bus.calls[c].at = "idle"

(* C39: the operations on one cell are linearizable.  In every sequential   *)
(* order of set_bit, set_value, reset_all_bits and sync_from_device, begun  *)
(* with the word and the device equal, each operation leaves them equal;    *)
(* so whenever no operation is in progress the word equals the device.      *)
C39_Linearizable == Quiescent => cmd = device

-----------------------------------------------------------------------------
(* Shutdown: SIGINT lowers the running flag; the three loops watch it; the   *)
(* coordinator thread then runs Application.stop.  pc = "join" is the        *)
(* coordinator in thread_update_data.join(), "hub" the serial port closed    *)
(* and WebSocket.stop about to be called, "stopped" the end of stop().       *)

(* get_photo from the front end while fewer than MaxPhotos photo workers are *)
(* under way                                                                 *)
ShutdownRequest ==
    /\ Cardinality({i \in DOMAIN workers : workers[i].at \notin {"none", "done"}}) < MaxPhotos
    /\ PhotoRequest

(* Application.signal_handler, lines 136-137 *)
Sigint ==
    /\ running /\ pc # "stopped"
    /\ running' = FALSE
    /\ UNCHANGED <<app, cmd, status, client_messages, pc, ticked, out, to_vision, started,
                   latch_age, arms, clients, conns, ret, received, returned, poller, io_failures,
                   script, bus, counters, log, door_sent, workers, device, episode, vision_peer>>

beside_threads == <<app, cmd, status, client_messages, ticked, out, to_vision, started,
                    latch_age, arms, clients, conns, ret, received, returned, running,
                    io_failures, script, bus, counters, log, door_sent, workers, device, episode,
                    vision_peer>>

(* lines 184 and 332-333, 146-149: the loop condition fails, the finally     *)
(* clause calls stop(), which waits for the poller thread                    *)
RunExit ==
    /\ pc = "top" /\ ~running
    /\ pc' = "join"
    /\ UNCHANGED <<poller, beside_threads>>

(* variant: the poller's loop does not watch the flag *)
PollerLoops ==
    /\ poller = "running" /\ ~running
    /\ UNCHANGED vars

(* Application.PLC_update_data, line 160: the loop condition fails and the   *)
(* thread ends                                                               *)
PollerExit ==
    /\ poller = "running" /\ ~running
    /\ poller' = "stopped"
    /\ UNCHANGED <<pc, beside_threads>>

(* lines 148-151 and PLC.stop: the join returns (or the thread was no longer *)
(* alive), the Modbus server is stopped and the serial port closed           *)
Stop_plc ==
    /\ pc = "join" /\ poller = "stopped"
    /\ pc' = "hub"
    /\ UNCHANGED <<poller, beside_threads>>

(* lines 152-154 and WebSocket.stop: the hub's loop is told to end and its   *)
(* thread is joined for at most two seconds                                  *)
Stop_hub ==
    /\ pc = "hub"
    /\ pc' = "stopped"
    /\ UNCHANGED <<poller, beside_threads>>

NextShutdown ==
    \/ RunTop
    \/ RunIdle
    \/ RunCommands
    \/ RunEvents
    \/ UpdateData({1})
    \/ HandlerRegister({"app"})
    \/ ShutdownRequest
    \/ \E i \in DOMAIN workers : WorkerBegin(i)
    \/ \E i \in DOMAIN workers : WorkerPoll(i)
    \/ \E i \in DOMAIN workers : WorkerTimeout(i)
    \/ Advance
    \/ Sigint
    \/ RunExit
    \/ PollerExit
    \/ Stop_plc
    \/ Stop_hub

SpecShutdown == Init /\ [][NextShutdown]_vars

(* the coordinator thread goes on whenever it can, and so do the poller     *)
(* thread and every photo worker: each is a thread of its own               *)
CoordinatorThread == CoordinatorStep \/ RunExit \/ Stop_plc \/ Stop_hub
WorkerThread(i) == WorkerBegin(i) \/ WorkerPoll(i) \/ WorkerTimeout(i)

SpecShutdownFair ==
    /\ SpecShutdown
    /\ WF_vars(CoordinatorThread)
    /\ WF_vars(PollerExit)
    /\ \A i \in 1 .. MaxWorkers : WF_vars(WorkerThread(i))

ShutDown ==
    /\ pc = "stopped" /\ poller = "stopped"
    /\ \A i \in DOMAIN workers : workers[i].at \in {"none", "done"}

(* what a step does once the flag is false: the coordinator begins no       *)
(* further iteration, the poller reads the device no more, and no photo     *)
(* worker makes another pass of its wait                                    *)
FlagObeyed ==
    /\ (~running /\ pc = "top") => pc' # "states"
    /\ ~running => status' = status
    /\ \A i \in DOMAIN workers :
          (~running /\ workers[i].at = "poll" /\ ~workers[i].polled) => ~workers'[i].polled

(* the step that closes the serial port, and the one that stops the hub *)
PortClosed == pc # "hub" /\ pc' = "hub"
HubStopped == pc # "stopped" /\ pc' = "stopped"

====
